---- MODULE Spec2Model ----
(***************************************************************************)
(* Event-recording core of the FW Cycle Time Monitor                       *)
(* (src/src/fw_cycle_monitor/gpio_monitor.py, class CycleMonitor).         *)
(*                                                                         *)
(* The ledger (CSV file), its spool file (<ledger>.pending) and the two    *)
(* state stores are files: they are shared by every CycleMonitor instance  *)
(* and survive the death of a process.  Everything else is memory of one   *)
(* instance.  Instance 1 is the service's monitor (service_runner.py);     *)
(* instance 2 is the monitor the GUI constructs for "log test event".      *)
(*                                                                         *)
(* A row is identified by its timestamp, a clock reading 1, 2, ...         *)
(* A section of code run under self._lock is one action; code run without  *)
(* the lock is split at every access to shared memory or to a file.        *)
(***************************************************************************)
EXTENDS Integers, Sequences, FiniteSets, TLC

\* Number of events (clock readings) in one behaviour.
MaxRows == 2
\* Number of times the service process is killed and started again.
MaxCrashes == 1

Insts == {1, 2}
ServiceThreads == {"main", "ctl", "cb", "worker", "sim"}
Threads == ServiceThreads \cup {"gui"}
Inst(t) == IF t = "gui" THEN 2 ELSE 1
NoState == [last_cycle |-> -1, last_timestamp |-> 0]

VARIABLES
    \* ---- files and environment
    ledger,            \* rows of the CSV file, in file order
    csvExists,         \* the CSV file exists
    spool,             \* rows of the spool file; << >> when the file is absent
    primary,           \* state.json entry of the machine, or NoState
    sidecar,           \* <ledger>.state.json, or NoState
    storage,           \* "ok" | "busy" (ledger locked: append fails) | "gone" (directory unreachable)
    clock,             \* number of events timestamped so far
    crashes,           \* number of times the service process died
    \* ---- memory of a CycleMonitor instance
    running,           \* self._running
    pending_rows,      \* self._pending_rows
    write_queue,       \* self._write_queue
    pending_loaded,    \* self._pending_loaded
    csv_initialized,   \* self._csv_initialized
    count,             \* self._counter._count
    counter_initialized, \* self._counter_initialized
    signal_high,       \* self._signal_high
    events_logged,     \* self._stats.events_logged
    writer_stop,       \* self._writer_stop (instance 1)
    queue_event,       \* self._queue_event (instance 1)
    writer_thread,     \* self._writer_thread is not None (instance 1)
    armed,             \* edge detection registered on the pin (instance 1)
    \* ---- threads
    pc,                \* position of each thread
    after,             \* where _flush_queue returns to
    rows_to_write,     \* local rows_to_write of _flush_queue
    timestamp,         \* local timestamp of the event being recorded
    cycle_number,      \* local: value read from / returned by _CycleCounter.record
    \* ---- history
    accepted,          \* rows each instance passed to _enqueue_row since its process started
    enqueued_running,  \* rows whose _enqueue_row returned on a running recorder
    assigned,          \* cycle number _CycleCounter.record returned for each timestamp (0: none)
    overlapped,        \* the _flush_queue call of the thread ran while another one was in progress;
                       \* for "ctl": its reset_cycle_counter ran while an event was being recorded
    stop_storage,      \* the storage during the stop() in progress or returned: "none" | "ok" | "failed" | "mixed"
    gpio_failed,       \* _setup_gpio raised inside the start() of this process
    restored,          \* the states the last _restore_counter_state read: <<primary store, sidecar>>
    notified,          \* how often the observer callback was invoked with each timestamp
    propagated,        \* timestamps whose simulate_event call ended with an exception of the observer
    unsaved,           \* timestamps of which a state write (state.json or sidecar) failed
    \* ---- the _CycleCounter of instance 1 with its reset window
    reset_hour,        \* self._reset_hour
    next_reset,        \* self._next_reset; None when the counter was never configured
    op,                \* the last call made on the counter: "new" | "configure" | "record"
    at,                \* the reference or timestamp of that call; None before it
    returned,          \* what the last call returned if it was record, else 0
    rolled,            \* the days by which the last call, if it was record, moved next_reset on
    ordered,           \* no record since the last configure had a timestamp before the call before it
    increasing,        \* the timestamps of the records since the last configure are strictly increasing
    \* ---- one state save, step by step: state.json, the sidecar and their temporary files
    disk,              \* the content of each file: Absent, Torn(n) or Complete(n) for the text of save n
    save_pc,           \* where the save is: [step, file]
    saves,             \* the saves begun so far
    \* ---- a ledger file an earlier version wrote, with its rows as text
    legacy,            \* the rows of the file: each a sequence of fields
    original,          \* the rows of the file before the first start on it
    seed,              \* what the last _ensure_migrated returned: NoSeed for None
    replayed,          \* the last cycle_number the migration's own counter returned (0: none)
    mig_op,            \* how the last _prepare_storage ended: "none" | "kept" | "migrated" | "failed"
    runs,              \* the starts on the file so far
    \* ---- the saved configuration (config.json), written by the GUI process
    config,            \* the configuration last saved: [machine_id, csv_directory]
    retiring,          \* the previous configuration whose files a save_config is cleaning up; NoConfig: none
    config_saves       \* the save_config calls so far

fileVars == <<ledger, csvExists, spool, primary, sidecar, storage, clock, crashes>>
memVars == <<running, pending_rows, write_queue, pending_loaded, csv_initialized,
             count, counter_initialized, signal_high, events_logged,
             writer_stop, queue_event, writer_thread, armed>>
threadVars == <<pc, after, rows_to_write, timestamp, cycle_number>>
obsVars == <<notified, propagated, unsaved>>
histVars == <<accepted, enqueued_running, assigned, overlapped, stop_storage, gpio_failed,
              restored, obsVars>>
counterVars == <<reset_hour, next_reset, op, at, returned, rolled, ordered, increasing>>
saveVars == <<disk, save_pc, saves>>
migVars == <<legacy, original, seed, replayed, mig_op, runs>>
cfgVars == <<config, retiring, config_saves>>
unitVars == <<counterVars, saveVars, migVars, cfgVars>>
vars == <<fileVars, memVars, threadVars, histVars, unitVars>>

RowIds == 1..MaxRows
Range(s) == {s[k] : k \in 1..Len(s)}

\* Time is counted in half hours from the midnight that starts day 0, in the
\* one time zone the recorder's astimezone() timestamps carry.
Hour == 2
DayLen == 24 * Hour
None == -1
MaxDays == 2
MaxCycle == 3
MaxSaves == 3
ResetHours == {0, 3, 4, 23}
HoursOfDay == {0, 3, 4, 5, 6, 23}
Times == {d * DayLen + h * Hour + m : d \in 0..MaxDays, h \in HoursOfDay, m \in {0, 1}}

\* _CycleCounter.__init__
NewCounter ==
    /\ next_reset = None
    /\ op = "new"
    /\ at = None
    /\ returned = 0
    /\ rolled = 0
    /\ ordered = TRUE
    /\ increasing = TRUE

\* The two state files and the temporary file each is written through.
StateFiles == {"state", "sidecar"}
TmpFiles == {"state_tmp", "sidecar_tmp"}
NoSave == [step |-> "idle", file |-> "state"]
Absent == [text |-> "absent", of |-> 0]
Torn(n) == [text |-> "torn", of |-> n]
Complete(n) == [text |-> "complete", of |-> n]

\* The machine and the directory the modelled ledger, spool and state files
\* belong to: the configuration the service was started with.
OwnMachine == "M"
OwnDirectory == "d1"
NoConfig == [machine_id |-> "", csv_directory |-> ""]
OwnConfig == [machine_id |-> OwnMachine, csv_directory |-> OwnDirectory]

\* config.json holds the configuration of the service and no save is under way.
ConfigAsStarted ==
    /\ config = OwnConfig
    /\ retiring = NoConfig
    /\ config_saves = 0

\* _ensure_migrated returned None.
NoSeed == [reference |-> -1, last_count |-> 0]

\* No start has looked at the ledger file yet.
NothingMigrated ==
    /\ seed = NoSeed
    /\ replayed = 0
    /\ mig_op = "none"
    /\ runs = 0

\* The ledger is not a file of an earlier version.
NoLegacy ==
    /\ legacy = << >>
    /\ original = << >>

\* No state file has been written yet and no save is under way.
NothingSaved ==
    /\ disk = [f \in StateFiles \cup TmpFiles |-> Absent]
    /\ save_pc = NoSave
    /\ saves = 0

Constructed ==
    /\ NothingSaved
    /\ NothingMigrated
    /\ ConfigAsStarted
    /\ ledger = << >>
    /\ csvExists = FALSE
    /\ spool = << >>
    /\ storage = "ok"
    /\ clock = 0
    /\ crashes = 0
    /\ running = [i \in Insts |-> FALSE]
    /\ pending_rows = [i \in Insts |-> << >>]
    /\ write_queue = [i \in Insts |-> << >>]
    /\ pending_loaded = [i \in Insts |-> FALSE]
    /\ csv_initialized = [i \in Insts |-> FALSE]
    /\ count = [i \in Insts |-> 0]
    /\ counter_initialized = [i \in Insts |-> FALSE]
    /\ signal_high = [i \in Insts |-> FALSE]
    /\ events_logged = [i \in Insts |-> 0]
    /\ writer_stop = FALSE
    /\ queue_event = FALSE
    /\ writer_thread = FALSE
    /\ armed = FALSE
    /\ pc = [t \in Threads |-> IF t = "worker" THEN "none" ELSE "idle"]
    /\ after = [t \in Threads |-> "idle"]
    /\ rows_to_write = [t \in Threads |-> << >>]
    /\ timestamp = [t \in Threads |-> 0]
    /\ cycle_number = [t \in Threads |-> 0]
    /\ accepted = [i \in Insts |-> {}]
    /\ enqueued_running = {}
    /\ assigned = [r \in RowIds |-> 0]
    /\ overlapped = [t \in Threads |-> FALSE]
    /\ stop_storage = "none"
    /\ gpio_failed = FALSE
    /\ restored = <<NoState, NoState>>
    /\ notified = [r \in RowIds |-> 0]
    /\ propagated = {}
    /\ unsaved = {}
    /\ NewCounter

\* Neither state.json nor the sidecar file has an entry for the machine.
NoStoredState ==
    /\ primary = NoState
    /\ sidecar = NoState

Init ==
    /\ Constructed
    /\ NoStoredState
    /\ NoLegacy
    /\ reset_hour = 4

\* What earlier runs of the service may have left in a store: nothing, or the
\* last cycle and its timestamp, which is before this run's first event.
StoredStates ==
    {NoState} \cup {[last_cycle |-> c, last_timestamp |-> ts] : c \in {1, 2}, ts \in {-2, -1}}

(***************************************************************************)
(* Environment: the storage that holds the ledger directory.               *)
(***************************************************************************)
Class(s) == IF s = "ok" THEN "ok" ELSE "failed"
Stopping == pc["main"] \in {"stop_writer", "stop_join"} \/ after["main"] = "stopped"

StorageChange(s) ==
    /\ s # storage
    /\ storage' = s
    /\ stop_storage' = IF Stopping /\ stop_storage # Class(s) THEN "mixed" ELSE stop_storage
    /\ UNCHANGED <<ledger, csvExists, spool, primary, sidecar, clock, crashes, unitVars>>
    /\ UNCHANGED <<memVars, threadVars>>
    /\ UNCHANGED <<accepted, enqueued_running, assigned, overlapped, gpio_failed, restored, obsVars>>

(***************************************************************************)
(* Pending row logic                                                       *)
(***************************************************************************)
\* _load_pending_rows: the pending list after the call.
LoadPendingRows(i) ==
    IF pending_loaded[i] THEN pending_rows[i]
    ELSE IF storage = "gone" THEN pending_rows[i]
    ELSE pending_rows[i] \o spool

\* A faulty _persist_pending_rows that writes a non-empty list but never
\* unlinks the spool file of an empty one.
PersistWithoutUnlink(i) ==
    IF storage = "gone" \/ pending_rows[i] = << >> THEN spool ELSE pending_rows[i]

\* _persist_pending_rows: the spool file after the call.
\* An empty list unlinks the file; an unreachable directory leaves it as it is.
PersistPendingRows(i) ==
    IF storage = "gone" THEN spool ELSE pending_rows[i]

InFlush(t) == pc[t] \in {"flush_append", "flush_ok", "flush_fail", "flush_fail_persist"}

\* _flush_queue returns to its caller; its locals are gone.
FlushReturn(t) ==
    /\ pc' = [pc EXCEPT ![t] = after[t]]
    /\ after' = [after EXCEPT ![t] = "idle"]
    /\ rows_to_write' = [rows_to_write EXCEPT ![t] = << >>]
    /\ overlapped' = [overlapped EXCEPT ![t] = FALSE]

\* _flush_queue, the first section under the lock: load the spool once,
\* return True when there is nothing to write, else take the pending rows
\* followed by the queued rows and empty both lists.
FlushTake(t) ==
    LET i == Inst(t)
        loaded == LoadPendingRows(i)
    IN
    /\ pc[t] = "flush"
    /\ pending_loaded' = [pending_loaded EXCEPT ![i] = TRUE]
    /\ IF loaded = << >> /\ write_queue[i] = << >>
       THEN /\ FlushReturn(t)
            /\ pending_rows' = [pending_rows EXCEPT ![i] = loaded]
            /\ UNCHANGED write_queue
       ELSE /\ rows_to_write' = [rows_to_write EXCEPT ![t] = loaded \o write_queue[i]]
            /\ pending_rows' = [pending_rows EXCEPT ![i] = << >>]
            /\ write_queue' = [write_queue EXCEPT ![i] = << >>]
            /\ pc' = [pc EXCEPT ![t] = "flush_append"]
            /\ overlapped' = [u \in Threads |->
                                IF u = t THEN \E v \in Threads \ {t} : InFlush(v)
                                ELSE overlapped[u] \/ InFlush(u)]
            /\ UNCHANGED after
    /\ UNCHANGED <<fileVars, unitVars, timestamp, cycle_number>>
    /\ UNCHANGED <<running, csv_initialized, count, counter_initialized, signal_high,
                   events_logged, writer_stop, queue_event, writer_thread, armed>>
    /\ UNCHANGED <<accepted, enqueued_running, assigned, stop_storage, gpio_failed, restored, obsVars>>

\* _flush_queue: csv_path.open("a") and writer.writerows(rows_to_write).
\* The append raises OSError unless the storage is "ok".
FlushAppend(t) ==
    /\ pc[t] = "flush_append"
    /\ IF storage = "ok"
       THEN /\ ledger' = ledger \o rows_to_write[t]
            /\ csvExists' = TRUE
            /\ pc' = [pc EXCEPT ![t] = "flush_ok"]
       ELSE /\ pc' = [pc EXCEPT ![t] = "flush_fail"]
            /\ UNCHANGED <<ledger, csvExists>>
    /\ UNCHANGED <<spool, primary, sidecar, storage, clock, crashes, unitVars>>
    /\ UNCHANGED <<memVars, histVars>>
    /\ UNCHANGED <<after, rows_to_write, timestamp, cycle_number>>

\* _flush_queue after a successful append: _persist_pending_rows, return True.
FlushPersistOk(t) ==
    /\ pc[t] = "flush_ok"
    /\ spool' = PersistPendingRows(Inst(t))
    /\ FlushReturn(t)
    /\ UNCHANGED <<ledger, csvExists, primary, sidecar, storage, clock, crashes, unitVars>>
    /\ UNCHANGED <<memVars, timestamp, cycle_number>>
    /\ UNCHANGED <<accepted, enqueued_running, assigned, stop_storage, gpio_failed, restored, obsVars>>

\* A faulty except handler that puts back the rows without the first one.
FlushRestoreTail(t) ==
    /\ pc[t] = "flush_fail"
    /\ pending_rows' = [pending_rows EXCEPT ![Inst(t)] = Tail(rows_to_write[t])]
    /\ write_queue' = [write_queue EXCEPT ![Inst(t)] = << >>]
    /\ pc' = [pc EXCEPT ![t] = "flush_fail_persist"]
    /\ UNCHANGED <<fileVars, unitVars, histVars>>
    /\ UNCHANGED <<running, pending_loaded, csv_initialized, count, counter_initialized,
                   signal_high, events_logged, writer_stop, queue_event, writer_thread, armed>>
    /\ UNCHANGED <<after, rows_to_write, timestamp, cycle_number>>

\* _flush_queue, except OSError: the section under the lock.
FlushRestore(t) ==
    LET i == Inst(t) IN
    /\ pc[t] = "flush_fail"
    /\ pending_rows' = [pending_rows EXCEPT ![i] = rows_to_write[t]]
    /\ write_queue' = [write_queue EXCEPT ![i] = << >>]
    /\ pc' = [pc EXCEPT ![t] = "flush_fail_persist"]
    /\ UNCHANGED <<fileVars, unitVars, histVars>>
    /\ UNCHANGED <<running, pending_loaded, csv_initialized, count, counter_initialized,
                   signal_high, events_logged, writer_stop, queue_event, writer_thread, armed>>
    /\ UNCHANGED <<after, rows_to_write, timestamp, cycle_number>>

\* _flush_queue, except OSError: _persist_pending_rows, return False.
FlushPersistFail(t) ==
    /\ pc[t] = "flush_fail_persist"
    /\ spool' = PersistPendingRows(Inst(t))
    /\ FlushReturn(t)
    /\ UNCHANGED <<ledger, csvExists, primary, sidecar, storage, clock, crashes, unitVars>>
    /\ UNCHANGED <<memVars, timestamp, cycle_number>>
    /\ UNCHANGED <<accepted, enqueued_running, assigned, stop_storage, gpio_failed, restored, obsVars>>

FlushQueue(t) ==
    \/ FlushTake(t)
    \/ FlushAppend(t)
    \/ FlushPersistOk(t)
    \/ FlushRestore(t)
    \/ FlushPersistFail(t)

(***************************************************************************)
(* State stores and storage preparation                                    *)
(***************************************************************************)
\* _load_sidecar_state: the sidecar file is unreadable while the directory is gone.
LoadSidecarState == IF storage = "gone" THEN NoState ELSE sidecar

\* _persist_sidecar_state: the sidecar file after the call.
PersistSidecarState(c, ts) ==
    IF storage = "gone" THEN sidecar ELSE [last_cycle |-> c, last_timestamp |-> ts]

RestoreWithoutSync(i) ==
    LET persisted == primary
        side == LoadSidecarState
        both == persisted # NoState /\ side # NoState
        sideWins == both /\ side.last_timestamp > persisted.last_timestamp
        chosen == IF both THEN (IF sideWins THEN side ELSE persisted)
                  ELSE IF persisted # NoState THEN persisted ELSE side
    IN [count |-> IF chosen = NoState THEN count[i] ELSE chosen.last_cycle,
        initialized |-> chosen # NoState,
        primary |-> primary,
        sidecar |-> sidecar]

\* _restore_counter_state of instance i: the counter and both stores after the call.
RestoreCounterState(i) ==
    LET persisted == primary
        side == LoadSidecarState
        both == persisted # NoState /\ side # NoState
        sideWins == both /\ side.last_timestamp > persisted.last_timestamp
        chosen == IF both THEN (IF sideWins THEN side ELSE persisted)
                  ELSE IF persisted # NoState THEN persisted ELSE side
    IN [count |-> IF chosen = NoState THEN count[i] ELSE chosen.last_cycle,
        initialized |-> chosen # NoState,
        reference |-> chosen.last_timestamp,
        primary |-> IF sideWins THEN side ELSE primary,
        sidecar |-> IF both /\ ~sideWins
                    THEN PersistSidecarState(persisted.last_cycle, persisted.last_timestamp)
                    ELSE sidecar]

\* _prepare_storage of instance i, entered with counter value c and
\* _counter_initialized = ci: what it leaves behind, and whether it raised
\* (ok = FALSE) or reached its final _flush_queue() (flush = TRUE).
PrepareStorage(i, c, ci) ==
    LET base == [ok |-> TRUE, flush |-> FALSE, csvExists |-> csvExists,
                 csv_initialized |-> csv_initialized[i],
                 count |-> c, counter_initialized |-> ci,
                 pending_rows |-> pending_rows[i], pending_loaded |-> pending_loaded[i]]
    IN
    IF csv_initialized[i] /\ storage # "gone" /\ csvExists
    THEN [base EXCEPT !.pending_rows = LoadPendingRows(i), !.pending_loaded = TRUE]
    ELSE IF storage = "gone"
    THEN [base EXCEPT !.ok = FALSE, !.csv_initialized = FALSE]
    ELSE IF ~csvExists
    THEN [base EXCEPT !.csvExists = TRUE, !.csv_initialized = TRUE,
                      !.count = IF ci THEN c ELSE 0, !.counter_initialized = TRUE]
    ELSE [base EXCEPT !.csv_initialized = TRUE,
                      !.count = IF ci THEN c ELSE Len(ledger), !.counter_initialized = TRUE,
                      !.pending_rows = LoadPendingRows(i), !.pending_loaded = TRUE,
                      !.flush = TRUE]

(***************************************************************************)
(* _record_event, on the thread of _handle_event ("cb") or of              *)
(* simulate_event ("sim" on instance 1, "gui" on instance 2)               *)
(***************************************************************************)
Recorders == {"cb", "sim", "gui"}

\* _record_event: self._prepare_storage(); on an exception _handle_event
\* clears the latch and returns, simulate_event goes on to its statistics.
RecordPrepare(t) ==
    LET i == Inst(t)
        p == PrepareStorage(i, count[i], counter_initialized[i])
    IN
    /\ pc[t] = "rec_prepare"
    /\ csvExists' = p.csvExists
    /\ csv_initialized' = [csv_initialized EXCEPT ![i] = p.csv_initialized]
    /\ count' = [count EXCEPT ![i] = p.count]
    /\ counter_initialized' = [counter_initialized EXCEPT ![i] = p.counter_initialized]
    /\ pending_rows' = [pending_rows EXCEPT ![i] = p.pending_rows]
    /\ pending_loaded' = [pending_loaded EXCEPT ![i] = p.pending_loaded]
    /\ IF ~p.ok
       THEN /\ IF t = "cb"
               THEN /\ signal_high' = [signal_high EXCEPT ![i] = FALSE]
                    /\ pc' = [pc EXCEPT ![t] = "idle"]
                    /\ timestamp' = [timestamp EXCEPT ![t] = 0]
               ELSE /\ pc' = [pc EXCEPT ![t] = "stats"]
                    /\ UNCHANGED <<signal_high, timestamp>>
            /\ UNCHANGED after
       ELSE /\ pc' = [pc EXCEPT ![t] = IF p.flush THEN "flush" ELSE "rec_load"]
            /\ after' = [after EXCEPT ![t] = IF p.flush THEN "rec_load" ELSE after[t]]
            /\ UNCHANGED <<signal_high, timestamp>>
    /\ UNCHANGED <<ledger, spool, primary, sidecar, storage, clock, crashes, unitVars>>
    /\ UNCHANGED <<running, write_queue, events_logged, writer_stop, queue_event,
                   writer_thread, armed>>
    /\ UNCHANGED <<rows_to_write, cycle_number>>
    /\ UNCHANGED histVars

\* _CycleCounter.record, "self._count += 1": the read of self._count.
\* Every timestamp of a behaviour lies before the next reset boundary.
CounterLoad(t) ==
    /\ pc[t] = "rec_load"
    /\ cycle_number' = [cycle_number EXCEPT ![t] = count[Inst(t)]]
    /\ pc' = [pc EXCEPT ![t] = "rec_store"]
    /\ UNCHANGED <<fileVars, unitVars, memVars, histVars>>
    /\ UNCHANGED <<after, rows_to_write, timestamp>>

\* _CycleCounter.record, "self._count += 1": the write of self._count.
CounterStore(t) ==
    /\ pc[t] = "rec_store"
    /\ count' = [count EXCEPT ![Inst(t)] = cycle_number[t] + 1]
    /\ pc' = [pc EXCEPT ![t] = "rec_return"]
    /\ UNCHANGED <<fileVars, unitVars, histVars>>
    /\ UNCHANGED <<running, pending_rows, write_queue, pending_loaded, csv_initialized,
                   counter_initialized, signal_high, events_logged,
                   writer_stop, queue_event, writer_thread, armed>>
    /\ UNCHANGED <<after, rows_to_write, timestamp, cycle_number>>

\* _CycleCounter.record: "return self._count".
CounterReturn(t) ==
    /\ pc[t] = "rec_return"
    /\ cycle_number' = [cycle_number EXCEPT ![t] = count[Inst(t)]]
    /\ assigned' = [assigned EXCEPT ![timestamp[t]] = count[Inst(t)]]
    /\ pc' = [pc EXCEPT ![t] = "rec_enqueue"]
    /\ UNCHANGED <<fileVars, unitVars, memVars>>
    /\ UNCHANGED <<after, rows_to_write, timestamp>>
    /\ UNCHANGED <<accepted, enqueued_running, overlapped, stop_storage, gpio_failed, restored, obsVars>>

\* An _enqueue_row that leaves every row to the flush worker.
EnqueueRowSignalOnly(t) ==
    LET i == Inst(t) IN
    /\ pc[t] = "rec_enqueue"
    /\ pending_rows' = [pending_rows EXCEPT ![i] = LoadPendingRows(i)]
    /\ pending_loaded' = [pending_loaded EXCEPT ![i] = TRUE]
    /\ write_queue' = [write_queue EXCEPT ![i] = Append(write_queue[i], timestamp[t])]
    /\ accepted' = [accepted EXCEPT ![i] = accepted[i] \cup {timestamp[t]}]
    /\ queue_event' = TRUE
    /\ pc' = [pc EXCEPT ![t] = "rec_save"]
    /\ enqueued_running' = IF running[i] THEN enqueued_running \cup {timestamp[t]}
                           ELSE enqueued_running
    /\ UNCHANGED after
    /\ UNCHANGED <<fileVars, unitVars>>
    /\ UNCHANGED <<running, csv_initialized, count, counter_initialized, signal_high,
                   events_logged, writer_stop, writer_thread, armed>>
    /\ UNCHANGED <<rows_to_write, timestamp, cycle_number>>
    /\ UNCHANGED <<assigned, overlapped, stop_storage, gpio_failed, restored, obsVars>>

\* _enqueue_row: the section under the lock, then queue_event.set() on a
\* running monitor, or a synchronous _flush_queue() on a stopped one.
EnqueueRow(t) ==
    LET i == Inst(t) IN
    /\ pc[t] = "rec_enqueue"
    /\ pending_rows' = [pending_rows EXCEPT ![i] = LoadPendingRows(i)]
    /\ pending_loaded' = [pending_loaded EXCEPT ![i] = TRUE]
    /\ write_queue' = [write_queue EXCEPT ![i] = Append(write_queue[i], timestamp[t])]
    /\ accepted' = [accepted EXCEPT ![i] = accepted[i] \cup {timestamp[t]}]
    /\ IF running[i]
       THEN /\ queue_event' = TRUE
            /\ pc' = [pc EXCEPT ![t] = "rec_save"]
            /\ enqueued_running' = enqueued_running \cup {timestamp[t]}
            /\ UNCHANGED after
       ELSE /\ pc' = [pc EXCEPT ![t] = "flush"]
            /\ after' = [after EXCEPT ![t] = "rec_save"]
            /\ UNCHANGED <<queue_event, enqueued_running>>
    /\ UNCHANGED <<fileVars, unitVars>>
    /\ UNCHANGED <<running, csv_initialized, count, counter_initialized, signal_high,
                   events_logged, writer_stop, writer_thread, armed>>
    /\ UNCHANGED <<rows_to_write, timestamp, cycle_number>>
    /\ UNCHANGED <<assigned, overlapped, stop_storage, gpio_failed, restored, obsVars>>

SaveCycleStateAborting(t, ok) ==
    /\ pc[t] = "rec_save"
    /\ primary' = IF ok THEN [last_cycle |-> cycle_number[t], last_timestamp |-> timestamp[t]]
                  ELSE primary
    /\ unsaved' = IF ok THEN unsaved ELSE unsaved \cup {timestamp[t]}
    /\ pc' = [pc EXCEPT ![t] = IF ok THEN "rec_sidecar" ELSE "idle"]
    /\ UNCHANGED <<ledger, csvExists, spool, sidecar, storage, clock, crashes, unitVars>>
    /\ UNCHANGED memVars
    /\ UNCHANGED <<accepted, enqueued_running, assigned, overlapped, stop_storage, gpio_failed, restored,
                   notified, propagated>>
    /\ UNCHANGED <<after, rows_to_write, timestamp, cycle_number>>

\* _record_event: save_cycle_state, the entry of the machine in the primary
\* store; ok = FALSE: the configuration directory cannot be written, which is
\* logged (state.py:46-47, gpio_monitor.py:558-559).
SaveCycleState(t, ok) ==
    /\ pc[t] = "rec_save"
    /\ primary' = IF ok THEN [last_cycle |-> cycle_number[t], last_timestamp |-> timestamp[t]]
                  ELSE primary
    /\ unsaved' = IF ok THEN unsaved ELSE unsaved \cup {timestamp[t]}
    /\ pc' = [pc EXCEPT ![t] = "rec_sidecar"]
    /\ UNCHANGED <<ledger, csvExists, spool, sidecar, storage, clock, crashes, unitVars>>
    /\ UNCHANGED memVars
    /\ UNCHANGED <<accepted, enqueued_running, assigned, overlapped, stop_storage, gpio_failed, restored,
                   notified, propagated>>
    /\ UNCHANGED <<after, rows_to_write, timestamp, cycle_number>>

\* _record_event: _persist_sidecar_state, the file next to the ledger.
PersistSidecar(t) ==
    /\ pc[t] = "rec_sidecar"
    /\ sidecar' = PersistSidecarState(cycle_number[t], timestamp[t])
    /\ unsaved' = IF storage = "gone" THEN unsaved \cup {timestamp[t]} ELSE unsaved
    /\ pc' = [pc EXCEPT ![t] = "stats"]
    /\ UNCHANGED <<ledger, csvExists, spool, primary, storage, clock, crashes, unitVars>>
    /\ UNCHANGED memVars
    /\ UNCHANGED <<accepted, enqueued_running, assigned, overlapped, stop_storage, gpio_failed, restored,
                   notified, propagated>>
    /\ UNCHANGED <<after, rows_to_write, timestamp, cycle_number>>

\* The end of _handle_event and of simulate_event: the statistics under the
\* lock, then the observer, which raises or not.  _handle_event catches what
\* it raises, simulate_event does not.  The monitor the GUI built has no
\* observer and is dropped on return.
UpdateStats(t, raises) ==
    LET i == Inst(t) IN
    /\ pc[t] = "stats"
    /\ notified' = IF t = "gui" THEN notified
                   ELSE [notified EXCEPT ![timestamp[t]] = notified[timestamp[t]] + 1]
    /\ propagated' = IF raises /\ t = "sim" THEN propagated \cup {timestamp[t]} ELSE propagated
    /\ pc' = [pc EXCEPT ![t] = "idle"]
    /\ timestamp' = [timestamp EXCEPT ![t] = 0]
    /\ cycle_number' = [cycle_number EXCEPT ![t] = 0]
    /\ rows_to_write' = [rows_to_write EXCEPT ![t] = << >>]
    /\ after' = [after EXCEPT ![t] = "idle"]
    /\ overlapped' = [overlapped EXCEPT ![t] = FALSE]
    /\ IF t = "gui"
       THEN /\ pending_rows' = [pending_rows EXCEPT ![i] = << >>]
            /\ write_queue' = [write_queue EXCEPT ![i] = << >>]
            /\ pending_loaded' = [pending_loaded EXCEPT ![i] = FALSE]
            /\ csv_initialized' = [csv_initialized EXCEPT ![i] = FALSE]
            /\ count' = [count EXCEPT ![i] = 0]
            /\ counter_initialized' = [counter_initialized EXCEPT ![i] = FALSE]
            /\ events_logged' = [events_logged EXCEPT ![i] = 0]
            /\ UNCHANGED signal_high
       ELSE /\ events_logged' = [events_logged EXCEPT ![i] = events_logged[i] + 1]
            /\ signal_high' = [signal_high EXCEPT ![i] = IF t = "sim" THEN FALSE ELSE signal_high[i]]
            /\ UNCHANGED <<pending_rows, write_queue, pending_loaded, csv_initialized,
                           count, counter_initialized>>
    /\ UNCHANGED <<fileVars, unitVars>>
    /\ UNCHANGED <<running, writer_stop, queue_event, writer_thread, armed>>
    /\ UNCHANGED <<accepted, enqueued_running, assigned, stop_storage, gpio_failed, restored,
                   unsaved>>

\* _record_event and the statements after it in its caller.
RecordEvent(t) ==
    \/ RecordPrepare(t)
    \/ CounterLoad(t)
    \/ CounterStore(t)
    \/ CounterReturn(t)
    \/ EnqueueRow(t)
    \/ SaveCycleState(t, TRUE)
    \/ PersistSidecar(t)
    \/ \E raises \in BOOLEAN : UpdateStats(t, raises)

(***************************************************************************)
(* The edge callback and simulate_event                                    *)
(***************************************************************************)
\* _handle_event up to the latch: level is what GPIO.input returned
\* (a failed read is handled like a high level).
HandleEvent(level) ==
    /\ pc["cb"] = "idle"
    /\ armed
    /\ IF level = 0
       THEN /\ signal_high' = [signal_high EXCEPT ![1] = FALSE]
            /\ UNCHANGED <<clock, pc, timestamp>>
       ELSE IF signal_high[1]
       THEN UNCHANGED <<signal_high, clock, pc, timestamp>>
       ELSE /\ clock < MaxRows
            /\ signal_high' = [signal_high EXCEPT ![1] = TRUE]
            /\ clock' = clock + 1
            /\ timestamp' = [timestamp EXCEPT !["cb"] = clock + 1]
            /\ pc' = [pc EXCEPT !["cb"] = "rec_prepare"]
    /\ UNCHANGED <<ledger, csvExists, spool, primary, sidecar, storage, crashes, unitVars>>
    /\ UNCHANGED <<running, pending_rows, write_queue, pending_loaded, csv_initialized,
                   count, counter_initialized, events_logged,
                   writer_stop, queue_event, writer_thread, armed>>
    /\ UNCHANGED <<after, rows_to_write, cycle_number>>
    /\ UNCHANGED histVars

\* simulate_event up to _record_event: the timestamp, then under the lock
\* _restore_counter_state (if the counter is not initialised) and the latch.
SimulateEvent(t) ==
    LET i == Inst(t)
        rs == RestoreCounterState(i)
    IN
    /\ t \in {"sim", "gui"}
    /\ pc[t] = "idle"
    /\ clock < MaxRows
    /\ clock' = clock + 1
    /\ timestamp' = [timestamp EXCEPT ![t] = clock + 1]
    /\ IF counter_initialized[i]
       THEN UNCHANGED <<count, counter_initialized, primary, sidecar, restored>>
       ELSE /\ count' = [count EXCEPT ![i] = rs.count]
            /\ counter_initialized' = [counter_initialized EXCEPT ![i] = rs.initialized]
            /\ primary' = rs.primary
            /\ sidecar' = rs.sidecar
            /\ restored' = <<primary, LoadSidecarState>>
    /\ signal_high' = [signal_high EXCEPT ![i] = FALSE]
    /\ pc' = [pc EXCEPT ![t] = "rec_prepare"]
    /\ UNCHANGED <<ledger, csvExists, spool, storage, crashes, unitVars>>
    /\ UNCHANGED <<running, pending_rows, write_queue, pending_loaded, csv_initialized,
                   events_logged, writer_stop, queue_event, writer_thread, armed>>
    /\ UNCHANGED <<after, rows_to_write, cycle_number>>
    /\ UNCHANGED <<accepted, enqueued_running, assigned, overlapped, stop_storage, gpio_failed>>
    /\ UNCHANGED obsVars

(***************************************************************************)
(* The flush worker                                                        *)
(***************************************************************************)
\* _writer_loop: "while not self._writer_stop.is_set()"; the final flush once it is set.
WriterLoop ==
    /\ pc["worker"] = "w_check"
    /\ IF writer_stop
       THEN /\ pc' = [pc EXCEPT !["worker"] = "flush"]
            /\ after' = [after EXCEPT !["worker"] = "w_exit"]
       ELSE /\ pc' = [pc EXCEPT !["worker"] = "w_wait"]
            /\ UNCHANGED after
    /\ UNCHANGED <<fileVars, unitVars, memVars, histVars>>
    /\ UNCHANGED <<rows_to_write, timestamp, cycle_number>>

\* _writer_loop: queue_event.wait(timeout=5) returns (set, or timed out),
\* queue_event.clear(), then _flush_queue().
WriterWait ==
    /\ pc["worker"] = "w_wait"
    /\ queue_event' = FALSE
    /\ pc' = [pc EXCEPT !["worker"] = "flush"]
    /\ after' = [after EXCEPT !["worker"] = "w_check"]
    /\ UNCHANGED <<fileVars, unitVars, histVars>>
    /\ UNCHANGED <<running, pending_rows, write_queue, pending_loaded, csv_initialized,
                   count, counter_initialized, signal_high, events_logged,
                   writer_stop, writer_thread, armed>>
    /\ UNCHANGED <<rows_to_write, timestamp, cycle_number>>

\* _writer_loop returns: the thread ends.
WriterExit ==
    /\ pc["worker"] = "w_exit"
    /\ pc' = [pc EXCEPT !["worker"] = "none"]
    /\ after' = [after EXCEPT !["worker"] = "idle"]
    /\ rows_to_write' = [rows_to_write EXCEPT !["worker"] = << >>]
    /\ overlapped' = [overlapped EXCEPT !["worker"] = FALSE]
    /\ UNCHANGED <<fileVars, unitVars, memVars>>
    /\ UNCHANGED <<timestamp, cycle_number>>
    /\ UNCHANGED <<accepted, enqueued_running, assigned, stop_storage, gpio_failed, restored, obsVars>>

(***************************************************************************)
(* start() and stop(), called by the main thread of the service            *)
(***************************************************************************)
MainIdle == pc["main"] \in {"idle", "started", "stopped"}

\* A faulty start() without the test of self._running.
StartBeginUnguarded ==
    /\ MainIdle
    /\ running' = [running EXCEPT ![1] = TRUE]
    /\ pc' = [pc EXCEPT !["main"] = "start_prepare"]
    /\ UNCHANGED <<fileVars, unitVars, histVars>>
    /\ UNCHANGED <<pending_rows, write_queue, pending_loaded, csv_initialized,
                   count, counter_initialized, signal_high, events_logged,
                   writer_stop, queue_event, writer_thread, armed>>
    /\ UNCHANGED <<after, rows_to_write, timestamp, cycle_number>>

\* start(): the first section under the lock.  A start on a running monitor
\* returns at once.  As in service_runner.run, a process starts its monitor
\* once (again after a start that raised) and stops it once before it exits.
StartBegin ==
    /\ MainIdle
    /\ IF running[1]
       THEN UNCHANGED <<running, pc>>
       ELSE /\ pc["main"] = "idle"
            /\ running' = [running EXCEPT ![1] = TRUE]
            /\ pc' = [pc EXCEPT !["main"] = "start_prepare"]
    /\ UNCHANGED <<fileVars, unitVars, histVars>>
    /\ UNCHANGED <<pending_rows, write_queue, pending_loaded, csv_initialized,
                   count, counter_initialized, signal_high, events_logged,
                   writer_stop, queue_event, writer_thread, armed>>
    /\ UNCHANGED <<after, rows_to_write, timestamp, cycle_number>>

\* start(): _restore_counter_state() and _prepare_storage(); an exception
\* clears the running flag and propagates.
StartPrepare ==
    LET rs == RestoreCounterState(1)
        p == PrepareStorage(1, rs.count, rs.initialized)
    IN
    /\ pc["main"] = "start_prepare"
    /\ primary' = rs.primary
    /\ sidecar' = rs.sidecar
    /\ csvExists' = p.csvExists
    /\ csv_initialized' = [csv_initialized EXCEPT ![1] = p.csv_initialized]
    /\ count' = [count EXCEPT ![1] = p.count]
    /\ counter_initialized' = [counter_initialized EXCEPT ![1] = p.counter_initialized]
    /\ pending_rows' = [pending_rows EXCEPT ![1] = p.pending_rows]
    /\ pending_loaded' = [pending_loaded EXCEPT ![1] = p.pending_loaded]
    /\ IF ~p.ok
       THEN /\ running' = [running EXCEPT ![1] = FALSE]
            /\ pc' = [pc EXCEPT !["main"] = "idle"]
            /\ UNCHANGED after
       ELSE /\ pc' = [pc EXCEPT !["main"] = IF p.flush THEN "flush" ELSE "start_writer"]
            /\ after' = [after EXCEPT !["main"] = IF p.flush THEN "start_writer" ELSE after["main"]]
            /\ UNCHANGED running
    /\ UNCHANGED <<ledger, spool, storage, clock, crashes, unitVars>>
    /\ UNCHANGED <<write_queue, signal_high, events_logged,
                   writer_stop, queue_event, writer_thread, armed>>
    /\ UNCHANGED <<rows_to_write, timestamp, cycle_number>>
    /\ restored' = <<primary, LoadSidecarState>>
    /\ UNCHANGED obsVars
    /\ UNCHANGED <<accepted, enqueued_running, assigned, overlapped, stop_storage, gpio_failed>>

\* start(): under the lock clear both events and create the writer thread; start it.
StartWriter ==
    /\ pc["main"] = "start_writer"
    /\ writer_stop' = FALSE
    /\ queue_event' = FALSE
    /\ writer_thread' = TRUE
    /\ pc' = [pc EXCEPT !["main"] = "start_gpio", !["worker"] = "w_check"]
    /\ UNCHANGED <<fileVars, unitVars, histVars>>
    /\ UNCHANGED <<running, pending_rows, write_queue, pending_loaded, csv_initialized,
                   count, counter_initialized, signal_high, events_logged, armed>>
    /\ UNCHANGED <<after, rows_to_write, timestamp, cycle_number>>

\* stop(): the section under the lock on a running monitor, on thread t.
StopLocked(t) ==
    /\ armed' = FALSE
    /\ running' = [running EXCEPT ![1] = FALSE]
    /\ pc' = [pc EXCEPT ![t] = "stop_writer"]
    /\ stop_storage' = Class(storage)
    /\ UNCHANGED <<accepted, enqueued_running, assigned, overlapped>>

\* start(): _setup_gpio().  ok: the latch takes the level read and edge
\* detection is armed.  Otherwise _setup_gpio raised and start() calls
\* stop(), which returns at once if the monitor is no longer running, and
\* raises again.
SetupGpio(ok, level) ==
    /\ pc["main"] = "start_gpio"
    /\ IF ok
       THEN /\ signal_high' = [signal_high EXCEPT ![1] = (level = 1)]
            /\ armed' = TRUE
            /\ pc' = [pc EXCEPT !["main"] = "start_done"]
            /\ UNCHANGED <<running, histVars>>
       ELSE /\ level = 0
            /\ gpio_failed' = TRUE
            /\ UNCHANGED <<restored, obsVars>>
            /\ IF running[1]
               THEN StopLocked("main")
               ELSE /\ pc' = [pc EXCEPT !["main"] = "stopped"]
                    /\ UNCHANGED <<armed, running, accepted, enqueued_running,
                                   assigned, overlapped, stop_storage>>
            /\ UNCHANGED signal_high
    /\ UNCHANGED <<fileVars, unitVars>>
    /\ UNCHANGED <<pending_rows, write_queue, pending_loaded, csv_initialized,
                   count, counter_initialized, events_logged,
                   writer_stop, queue_event, writer_thread>>
    /\ UNCHANGED <<after, rows_to_write, timestamp, cycle_number>>

\* start(): the last statement, self._queue_event.set().
StartDone ==
    /\ pc["main"] = "start_done"
    /\ queue_event' = TRUE
    /\ pc' = [pc EXCEPT !["main"] = "started"]
    /\ UNCHANGED <<fileVars, unitVars, histVars>>
    /\ UNCHANGED <<running, pending_rows, write_queue, pending_loaded, csv_initialized,
                   count, counter_initialized, signal_high, events_logged,
                   writer_stop, writer_thread, armed>>
    /\ UNCHANGED <<after, rows_to_write, timestamp, cycle_number>>

\* Where thread t is between two calls, and where it is once stop() returned.
CallerIdle(t) == IF t = "main" THEN MainIdle ELSE pc[t] = "idle"
StopReturn(t) == IF t = "main" THEN "stopped" ELSE "idle"

\* stop() called by thread t: the section under the lock.  A stop on a
\* stopped monitor returns at once.
StopBegin(t) ==
    /\ CallerIdle(t)
    /\ IF running[1]
       THEN StopLocked(t) /\ UNCHANGED <<gpio_failed, restored, obsVars>>
       ELSE UNCHANGED <<armed, running, pc, histVars>>
    /\ UNCHANGED <<fileVars, unitVars>>
    /\ UNCHANGED <<pending_rows, write_queue, pending_loaded, csv_initialized,
                   count, counter_initialized, signal_high, events_logged,
                   writer_stop, queue_event, writer_thread>>
    /\ UNCHANGED <<after, rows_to_write, timestamp, cycle_number>>

\* _stop_writer_thread: without a writer thread return; else set both events.
StopWriterSignal(t) ==
    /\ pc[t] = "stop_writer"
    /\ IF writer_thread
       THEN /\ writer_stop' = TRUE
            /\ queue_event' = TRUE
            /\ pc' = [pc EXCEPT ![t] = "stop_join"]
            /\ UNCHANGED after
       ELSE /\ pc' = [pc EXCEPT ![t] = "flush"]
            /\ after' = [after EXCEPT ![t] = StopReturn(t)]
            /\ UNCHANGED <<writer_stop, queue_event>>
    /\ UNCHANGED <<fileVars, unitVars, histVars>>
    /\ UNCHANGED <<running, pending_rows, write_queue, pending_loaded, csv_initialized,
                   count, counter_initialized, signal_high, events_logged,
                   writer_thread, armed>>
    /\ UNCHANGED <<rows_to_write, timestamp, cycle_number>>

\* _stop_writer_thread: thread.join(timeout=10) returns, because the thread
\* ended (timed_out = FALSE) or because the ten seconds elapsed while the
\* worker was held up in the file operations of a flush; then the thread is
\* forgotten and both events are cleared.  stop() goes on to _flush_queue().
StopWriterJoin(t, timed_out) ==
    /\ pc[t] = "stop_join"
    /\ IF timed_out THEN InFlush("worker") ELSE pc["worker"] = "none"
    /\ writer_thread' = FALSE
    /\ writer_stop' = FALSE
    /\ queue_event' = FALSE
    /\ pc' = [pc EXCEPT ![t] = "flush"]
    /\ after' = [after EXCEPT ![t] = StopReturn(t)]
    /\ UNCHANGED <<fileVars, unitVars, histVars>>
    /\ UNCHANGED <<running, pending_rows, write_queue, pending_loaded, csv_initialized,
                   count, counter_initialized, signal_high, events_logged, armed>>
    /\ UNCHANGED <<rows_to_write, timestamp, cycle_number>>

(***************************************************************************)
(* Death of the service process (kill, power loss, exit): the files stay,  *)
(* the memory of instance 1 and its threads are gone; the next process     *)
(* constructs a new CycleMonitor.                                          *)
(***************************************************************************)
Crash ==
    /\ crashes < MaxCrashes
    /\ clock > 0
    /\ crashes' = crashes + 1
    /\ running' = [running EXCEPT ![1] = FALSE]
    /\ pending_rows' = [pending_rows EXCEPT ![1] = << >>]
    /\ write_queue' = [write_queue EXCEPT ![1] = << >>]
    /\ pending_loaded' = [pending_loaded EXCEPT ![1] = FALSE]
    /\ csv_initialized' = [csv_initialized EXCEPT ![1] = FALSE]
    /\ count' = [count EXCEPT ![1] = 0]
    /\ counter_initialized' = [counter_initialized EXCEPT ![1] = FALSE]
    /\ signal_high' = [signal_high EXCEPT ![1] = FALSE]
    /\ events_logged' = [events_logged EXCEPT ![1] = 0]
    /\ writer_stop' = FALSE
    /\ queue_event' = FALSE
    /\ writer_thread' = FALSE
    /\ armed' = FALSE
    /\ pc' = [t \in Threads |-> IF t \notin ServiceThreads THEN pc[t]
                                ELSE IF t = "worker" THEN "none" ELSE "idle"]
    /\ after' = [t \in Threads |-> IF t \in ServiceThreads THEN "idle" ELSE after[t]]
    /\ rows_to_write' = [t \in Threads |-> IF t \in ServiceThreads THEN << >> ELSE rows_to_write[t]]
    /\ timestamp' = [t \in Threads |-> IF t \in ServiceThreads THEN 0 ELSE timestamp[t]]
    /\ cycle_number' = [t \in Threads |-> IF t \in ServiceThreads THEN 0 ELSE cycle_number[t]]
    /\ accepted' = [accepted EXCEPT ![1] = {}]
    /\ enqueued_running' = {}
    /\ overlapped' = [t \in Threads |-> IF t \in ServiceThreads THEN FALSE ELSE overlapped[t]]
    /\ assigned' = [r \in RowIds |-> 0]
    /\ stop_storage' = "none"
    /\ gpio_failed' = FALSE
    /\ restored' = <<NoState, NoState>>
    /\ notified' = [r \in RowIds |-> 0]
    /\ propagated' = {}
    /\ unsaved' = {}
    /\ UNCHANGED <<ledger, csvExists, spool, primary, sidecar, storage, clock, unitVars>>

(***************************************************************************)
(* _CycleCounter: the daily reset window of the cycle count.               *)
(***************************************************************************)
\* The specifications of the monitor keep every timestamp inside one reset
\* window, where record only adds 1 (CounterLoad, CounterStore); the window
\* itself, next_reset, moves in CounterSpec only.
\* reference.replace(hour=reset_hour, minute=0, second=0, microsecond=0)
ReplaceHour(reference) == (reference \div DayLen) * DayLen + reset_hour * Hour

CalculateNextResetInclusive(reference) ==
    IF reference <= ReplaceHour(reference) THEN ReplaceHour(reference)
    ELSE ReplaceHour(reference) + DayLen

\* _calculate_next_reset
CalculateNextReset(reference) ==
    IF reference < ReplaceHour(reference) THEN ReplaceHour(reference)
    ELSE ReplaceHour(reference) + DayLen

ResetsOnce(reset, ts) == IF ts >= reset THEN 1 ELSE 0

\* the passes of `while self._next_reset and timestamp >= self._next_reset`
RECURSIVE Resets(_, _)
Resets(reset, ts) == IF ts >= reset THEN 1 + Resets(reset + DayLen, ts) ELSE 0

\* configure(reference, current_count)
CounterConfigure(reference, current_count) ==
    /\ count' = [count EXCEPT ![1] = current_count]
    /\ next_reset' = CalculateNextReset(reference)
    /\ op' = "configure"
    /\ at' = reference
    /\ returned' = 0
    /\ rolled' = 0
    /\ ordered' = TRUE
    /\ increasing' = TRUE
    /\ UNCHANGED <<fileVars, threadVars, histVars, reset_hour, saveVars, migVars, cfgVars>>
    /\ UNCHANGED <<running, pending_rows, write_queue, pending_loaded, csv_initialized,
                   counter_initialized, signal_high, events_logged,
                   writer_stop, queue_event, writer_thread, armed>>

\* record(timestamp); an unconfigured counter configures itself first
CounterRecord(ts) ==
    LET seeded == IF next_reset = None THEN CalculateNextReset(ts) ELSE next_reset
        passes == Resets(seeded, ts)
    IN  /\ count[1] < MaxCycle
        /\ next_reset' = seeded + passes * DayLen
        /\ count' = [count EXCEPT ![1] = IF passes > 0 THEN 1 ELSE count[1] + 1]
        /\ returned' = count'[1]
        /\ rolled' = passes
        /\ op' = "record"
        /\ at' = ts
        /\ ordered' = (ordered /\ ts >= at)
        /\ increasing' = (increasing /\ (op = "record" => ts > at))
        /\ UNCHANGED <<fileVars, threadVars, histVars, reset_hour, saveVars, migVars, cfgVars>>
        /\ UNCHANGED <<running, pending_rows, write_queue, pending_loaded, csv_initialized,
                       counter_initialized, signal_high, events_logged,
                       writer_stop, queue_event, writer_thread, armed>>

(***************************************************************************)
(* One state save, file operation by file operation: _save_state_blob for  *)
(* state.json, then _persist_sidecar_state for the sidecar.                *)
(***************************************************************************)
\* The specifications of the monitor take each of the two writes as one step
\* (SaveCycleState, PersistSidecar); SaveSpec opens them up.
TmpPathInPlace(f) == f

\* STATE_PATH.with_suffix(suffix + ".tmp"), sidecar.with_suffix(suffix + ".tmp")
TmpPath(f) == IF f = "state" THEN "state_tmp" ELSE "sidecar_tmp"

\* What follows the write of file f in _record_event.
AfterFile(f) == IF f = "state" THEN [step |-> "open", file |-> "sidecar"] ELSE NoSave

SaveFrame ==
    /\ UNCHANGED <<ledger, csvExists, spool, primary, sidecar, storage, clock>>
    /\ UNCHANGED <<memVars, threadVars, histVars, counterVars, migVars, cfgVars>>

\* _record_event reaches save_cycle_state with the state of a new event.
SaveBegin ==
    /\ save_pc = NoSave
    /\ saves < MaxSaves
    /\ saves' = saves + 1
    /\ save_pc' = [step |-> "open", file |-> "state"]
    /\ UNCHANGED <<disk, crashes>>
    /\ SaveFrame

\* tmp_path.write_text(...): the file is created or truncated, then filled.
WriteOpen ==
    /\ save_pc.step = "open"
    /\ disk' = [disk EXCEPT ![TmpPath(save_pc.file)] = Torn(saves)]
    /\ save_pc' = [save_pc EXCEPT !.step = "write"]
    /\ UNCHANGED <<saves, crashes>>
    /\ SaveFrame

\* tmp_path.write_text(...) returns, or raises OSError with the text half written.
WriteText(ok) ==
    /\ save_pc.step = "write"
    /\ IF ok
       THEN /\ disk' = [disk EXCEPT ![TmpPath(save_pc.file)] = Complete(saves)]
            /\ save_pc' = [save_pc EXCEPT !.step = "replace"]
       ELSE /\ save_pc' = [save_pc EXCEPT !.step = "unlink"]
            /\ UNCHANGED disk
    /\ UNCHANGED <<saves, crashes>>
    /\ SaveFrame

\* tmp_path.replace(target): one rename, or OSError.
Replace(ok) ==
    /\ save_pc.step = "replace"
    /\ IF ok
       THEN /\ disk' = [disk EXCEPT ![save_pc.file] = disk[TmpPath(save_pc.file)],
                                    ![TmpPath(save_pc.file)] =
                                        IF TmpPath(save_pc.file) = save_pc.file
                                        THEN disk[save_pc.file] ELSE Absent]
            /\ save_pc' = AfterFile(save_pc.file)
       ELSE /\ save_pc' = [save_pc EXCEPT !.step = "unlink"]
            /\ UNCHANGED disk
    /\ UNCHANGED <<saves, crashes>>
    /\ SaveFrame

\* except OSError: tmp_path.unlink(missing_ok=True), which may fail as well.
Unlink(ok) ==
    /\ save_pc.step = "unlink"
    /\ disk' = IF ok THEN [disk EXCEPT ![TmpPath(save_pc.file)] = Absent] ELSE disk
    /\ save_pc' = AfterFile(save_pc.file)
    /\ UNCHANGED <<saves, crashes>>
    /\ SaveFrame

\* The process dies in the middle of a save; the files stay as they are.
SaveCrash ==
    /\ save_pc # NoSave
    /\ crashes < MaxCrashes
    /\ crashes' = crashes + 1
    /\ save_pc' = NoSave
    /\ UNCHANGED <<disk, saves>>
    /\ SaveFrame

(***************************************************************************)
(* reset_cycle_counter, called on the service's monitor by thread t        *)
(***************************************************************************)
\* A reset that moves the reset boundary and keeps the count.
ResetBeginKeepingCount(t) ==
    /\ pc[t] = "idle"
    /\ clock < MaxRows
    /\ clock' = clock + 1
    /\ timestamp' = [timestamp EXCEPT ![t] = clock + 1]
    /\ UNCHANGED count
    /\ next_reset' = CalculateNextReset(clock + 1)
    /\ counter_initialized' = [counter_initialized EXCEPT ![1] = TRUE]
    /\ pc' = [pc EXCEPT ![t] = "reset_save"]
    /\ UNCHANGED <<ledger, csvExists, spool, primary, sidecar, storage, crashes>>
    /\ UNCHANGED <<reset_hour, op, at, returned, rolled, ordered, increasing, saveVars, migVars,
                   cfgVars>>
    /\ UNCHANGED <<running, pending_rows, write_queue, pending_loaded, csv_initialized,
                   signal_high, events_logged, writer_stop, queue_event, writer_thread, armed>>
    /\ UNCHANGED <<after, rows_to_write, cycle_number>>
    /\ overlapped' = [overlapped EXCEPT ![t] = pc["cb"] # "idle"]
    /\ UNCHANGED <<accepted, enqueued_running, assigned, stop_storage, gpio_failed, restored,
                   obsVars>>

\* reference_time = now; under self._lock: self._counter.configure(reference_time, 0)
ResetBegin(t) ==
    /\ pc[t] = "idle"
    /\ clock < MaxRows
    /\ clock' = clock + 1
    /\ timestamp' = [timestamp EXCEPT ![t] = clock + 1]
    /\ count' = [count EXCEPT ![1] = 0]
    /\ next_reset' = CalculateNextReset(clock + 1)
    /\ counter_initialized' = [counter_initialized EXCEPT ![1] = TRUE]
    /\ pc' = [pc EXCEPT ![t] = "reset_save"]
    /\ UNCHANGED <<ledger, csvExists, spool, primary, sidecar, storage, crashes>>
    /\ UNCHANGED <<reset_hour, op, at, returned, rolled, ordered, increasing, saveVars, migVars,
                   cfgVars>>
    /\ UNCHANGED <<running, pending_rows, write_queue, pending_loaded, csv_initialized,
                   signal_high, events_logged, writer_stop, queue_event, writer_thread, armed>>
    /\ UNCHANGED <<after, rows_to_write, cycle_number>>
    /\ overlapped' = [overlapped EXCEPT ![t] = pc["cb"] # "idle"]
    /\ UNCHANGED <<accepted, enqueued_running, assigned, stop_storage, gpio_failed, restored,
                   obsVars>>

\* save_cycle_state(machine_id, last_cycle=0, last_timestamp=reference_time),
\* outside the lock; a failure is logged.
ResetSave(t, ok) ==
    /\ pc[t] = "reset_save"
    /\ primary' = IF ok THEN [last_cycle |-> 0, last_timestamp |-> timestamp[t]] ELSE primary
    /\ unsaved' = IF ok THEN unsaved ELSE unsaved \cup {timestamp[t]}
    /\ pc' = [pc EXCEPT ![t] = "reset_sidecar"]
    /\ UNCHANGED <<ledger, csvExists, spool, sidecar, storage, clock, crashes, unitVars>>
    /\ UNCHANGED memVars
    /\ overlapped' = [overlapped EXCEPT
                        ![t] = overlapped[t] \/ pc["cb"] # "idle" \/ clock # timestamp[t]]
    /\ UNCHANGED <<accepted, enqueued_running, assigned, stop_storage, gpio_failed, restored,
                   notified, propagated>>
    /\ UNCHANGED <<after, rows_to_write, timestamp, cycle_number>>

\* self._persist_sidecar_state(0, reference_time)
ResetSidecar(t) ==
    /\ pc[t] = "reset_sidecar"
    /\ sidecar' = PersistSidecarState(0, timestamp[t])
    /\ unsaved' = IF storage = "gone" THEN unsaved \cup {timestamp[t]} ELSE unsaved
    /\ pc' = [pc EXCEPT ![t] = "idle"]
    /\ timestamp' = [timestamp EXCEPT ![t] = 0]
    /\ UNCHANGED <<ledger, csvExists, spool, primary, storage, clock, crashes, unitVars>>
    /\ UNCHANGED memVars
    /\ overlapped' = [overlapped EXCEPT
                        ![t] = overlapped[t] \/ pc["cb"] # "idle" \/ clock # timestamp[t]]
    /\ UNCHANGED <<accepted, enqueued_running, assigned, stop_storage, gpio_failed, restored,
                   notified, propagated>>
    /\ UNCHANGED <<after, rows_to_write, cycle_number>>

(***************************************************************************)
(* _prepare_storage on a ledger file that exists: _ensure_migrated, the    *)
(* seed of the counter, the count of the rows.                             *)
(***************************************************************************)
\* Rows of a ledger file of an earlier version in one behaviour, and starts on it.
MaxLegacyRows == 3
MaxRestartRows == 2
MaxRuns == 2
\* _CycleCounter.__init__(self, reset_hour: int = 3)
DefaultResetHour == 3
\* The timestamps in the file: 02:00 and 04:00 of day 0, 04:00 of day 1.
LegacyTimes == {2 * Hour, 4 * Hour, DayLen + 4 * Hour}
\* datetime.now() of a start on the file.
StartTimes == {2 * DayLen + 5 * Hour}

\* A field of a row is a text: the isoformat() text of an instant, another
\* text that fromisoformat accepts for it ("2024-01-01 02:00:00"), or a text
\* that is no timestamp (a cycle number, a machine id, a header).
IsoText(t) == [kind |-> "iso", t |-> t]
OtherText(t) == [kind |-> "other", t |-> t]
NoTimestamp == [kind |-> "none", t |-> 0]
Fields == {NoTimestamp} \cup {IsoText(t) : t \in LegacyTimes} \cup {OtherText(t) : t \in LegacyTimes}

\* datetime.fromisoformat(text); None for ValueError
FromIsoFormat(text) == IF text.kind = "none" THEN None ELSE text.t

\* timestamp.isoformat()
IsoFormat(t) == IsoText(t)

\* The rows csv.reader yields: an empty line, or up to four fields of which
\* the last may be a timestamp.
LegacyRows ==
    {<< >>} \cup {[k \in 1..n |-> IF k = n THEN f ELSE NoTimestamp] : n \in 1..4, f \in Fields}

LegacyFiles == UNION {[1..n -> LegacyRows] : n \in 0..MaxLegacyRows}

RestartFiles == UNION {[1..n -> LegacyRows] : n \in 0..MaxRestartRows}

\* `len(first_row) in (2, 3)` taken as "not empty"
NeedsMigrationAnyWidth(rows) == Len(rows[1]) >= 1

\* _ensure_migrated: `len(first_row) == 1` returns None, `in (2, 3)` migrates,
\* any other width is an unknown format.
NeedsMigration(rows) == Len(rows[1]) \in {2, 3}

\* the loop over rows: migrated_rows
RECURSIVE MigratedRows(_)
MigratedRows(rows) ==
    IF rows = << >> THEN << >>
    ELSE LET row == Head(rows) IN
         IF Len(row) < 1 THEN MigratedRows(Tail(rows))
         ELSE IF FromIsoFormat(row[Len(row)]) = None THEN MigratedRows(Tail(rows))
         ELSE << <<IsoFormat(FromIsoFormat(row[Len(row)]))>> >> \o MigratedRows(Tail(rows))

\* _calculate_next_reset of the migration's own `_CycleCounter()`
FreshNextReset(reference) ==
    LET cycle_reset == (reference \div DayLen) * DayLen + DefaultResetHour * Hour
    IN IF reference < cycle_reset THEN cycle_reset ELSE cycle_reset + DayLen

\* `cycle_number = counter.record(timestamp)` over the migrated rows: the
\* value after the last one, from count c and next reset nr.
RECURSIVE Replay(_, _, _)
Replay(rows, c, nr) ==
    IF rows = << >> THEN c
    ELSE LET ts == FromIsoFormat(Head(rows)[1])
             seeded == IF nr = None THEN FreshNextReset(ts) ELSE nr
             passes == Resets(seeded, ts)
         IN Replay(Tail(rows), IF passes > 0 THEN 1 ELSE c + 1, seeded + passes * DayLen)

\* _ensure_migrated(csv_path) at instant now: whether it rewrites the file,
\* the rows it writes, what it returns, and its last cycle_number.
EnsureMigrated(rows, now) ==
    IF rows = << >>
    THEN [migrate |-> FALSE, rows |-> rows,
          seed |-> [reference |-> now, last_count |-> 0], cycle_number |-> 0]
    ELSE IF ~NeedsMigration(rows)
    THEN [migrate |-> FALSE, rows |-> rows, seed |-> NoSeed, cycle_number |-> 0]
    ELSE LET migrated_rows == MigratedRows(rows) IN
         [migrate |-> TRUE, rows |-> migrated_rows,
          seed |-> IF migrated_rows # << >>
                   THEN [reference |-> FromIsoFormat(migrated_rows[Len(migrated_rows)][1]),
                         last_count |-> Len(migrated_rows)]
                   ELSE [reference |-> now, last_count |-> 0],
          cycle_number |-> Replay(migrated_rows, 0, None)]

\* _prepare_storage, the loop that reads the file back: the timestamps of
\* the rows whose first field is one.
RECURSIVE ReadTimestamps(_)
ReadTimestamps(rows) ==
    IF rows = << >> THEN << >>
    ELSE LET row == Head(rows) IN
         IF Len(row) < 1 THEN ReadTimestamps(Tail(rows))
         ELSE IF FromIsoFormat(row[1]) = None THEN ReadTimestamps(Tail(rows))
         ELSE <<FromIsoFormat(row[1])>> \o ReadTimestamps(Tail(rows))

MigrateFrame ==
    /\ UNCHANGED <<ledger, csvExists, spool, storage, clock, crashes>>
    /\ UNCHANGED <<threadVars, histVars, saveVars, cfgVars, original>>
    /\ UNCHANGED <<reset_hour, op, at, returned, rolled, ordered, increasing>>
    /\ UNCHANGED <<running, pending_rows, write_queue, signal_high, events_logged,
                   writer_stop, queue_event, writer_thread, armed>>

\* The counter _prepare_storage leaves behind on an existing ledger: entered
\* with _counter_initialized = ci, count c and reset boundary nr, given the
\* result m of _ensure_migrated and the timestamps read of the tail scan.
SeedCounterFromLedger(ci, c, nr, m, read, now) ==
    [count |-> IF m.seed # NoSeed THEN m.seed.last_count ELSE Len(read),
     next_reset |-> CalculateNextReset(
                        IF m.seed # NoSeed THEN m.seed.reference
                        ELSE IF read # << >> THEN read[Len(read)] ELSE now)]

SeedCounter(ci, c, nr, m, read, now) ==
    IF ci THEN [count |-> c, next_reset |-> nr]
    ELSE [count |-> IF m.seed # NoSeed THEN m.seed.last_count ELSE Len(read),
          next_reset |-> CalculateNextReset(
                             IF m.seed # NoSeed THEN m.seed.reference
                             ELSE IF read # << >> THEN read[Len(read)] ELSE now)]

\* A process starts on the ledger file: _restore_counter_state, then
\* _prepare_storage at instant now.  fault "open": opening the file raises
\* OSError; fault "write": the rewrite of the migration raises after
\* open("w") has truncated the file and n rows were written.
PrepareLegacy(now, fault) ==
    LET rs == RestoreCounterState(1)
        c == IF rs.initialized THEN rs.count ELSE 0
        nr == IF rs.initialized THEN CalculateNextReset(rs.reference) ELSE None
        m == EnsureMigrated(legacy, now)
        kept == IF m.migrate THEN m.rows ELSE legacy
        read == ReadTimestamps(kept)
        raises == fault = "open" \/ (fault = "write" /\ m.migrate)
        seeded == SeedCounter(rs.initialized, c, nr, m, read, now)
    IN
    /\ runs < MaxRuns
    /\ runs' = runs + 1
    /\ primary' = rs.primary
    /\ sidecar' = rs.sidecar
    /\ IF raises
       THEN /\ IF fault = "open" THEN UNCHANGED legacy
               ELSE \E n \in 0..Len(m.rows) : legacy' = SubSeq(m.rows, 1, n)
            /\ mig_op' = "failed"
            /\ seed' = NoSeed
            /\ replayed' = IF fault = "open" THEN 0 ELSE m.cycle_number
            /\ count' = [count EXCEPT ![1] = c]
            /\ next_reset' = nr
            /\ counter_initialized' = [counter_initialized EXCEPT ![1] = rs.initialized]
            /\ csv_initialized' = [csv_initialized EXCEPT ![1] = FALSE]
            /\ pending_loaded' = [pending_loaded EXCEPT ![1] = FALSE]
       ELSE /\ legacy' = kept
            /\ mig_op' = IF m.migrate THEN "migrated" ELSE "kept"
            /\ seed' = m.seed
            /\ replayed' = m.cycle_number
            /\ count' = [count EXCEPT ![1] = seeded.count]
            /\ next_reset' = seeded.next_reset
            /\ counter_initialized' = [counter_initialized EXCEPT ![1] = TRUE]
            /\ csv_initialized' = [csv_initialized EXCEPT ![1] = TRUE]
            /\ pending_loaded' = [pending_loaded EXCEPT ![1] = TRUE]
    /\ MigrateFrame

(***************************************************************************)
(* config.py: save_config with _handle_machine_change, run by the GUI      *)
(* process (thread "gui") while the service works on its own configuration *)
(***************************************************************************)
MaxConfigSaves == 2
\* Machine ids as the user types them, and storage directories.
MachineIds == {"M", " m", "N"}
Directories == {"d1", "d2"}

\* _sanitize_machine_id: machine_id.strip().upper()
SanitizeMachineId(machine_id) == IF machine_id = " m" THEN "M" ELSE machine_id

\* the test of _handle_machine_change without the directories
SameMachineId(previous, current) ==
    SanitizeMachineId(previous.machine_id) = SanitizeMachineId(current.machine_id)

\* `prev_machine == curr_machine and prev_directory == curr_directory`
SameMachine(previous, current) ==
    /\ SanitizeMachineId(previous.machine_id) = SanitizeMachineId(current.machine_id)
    /\ previous.csv_directory = current.csv_directory

ConfigFrame ==
    /\ UNCHANGED <<ledger, csvExists, storage, clock, crashes>>
    /\ UNCHANGED <<counterVars, saveVars, migVars>>
    /\ UNCHANGED <<memVars, histVars>>
    /\ UNCHANGED <<after, rows_to_write, timestamp, cycle_number>>

\* save_config(AppConfig(machine_id, csv_directory)): config.json is
\* rewritten; _handle_machine_change returns when machine and directory are
\* the previous ones, and goes on to the clean-up otherwise.
SaveConfig(machine_id, csv_directory) ==
    LET current == [machine_id |-> SanitizeMachineId(machine_id),
                    csv_directory |-> csv_directory]
    IN
    /\ pc["gui"] = "idle"
    /\ config_saves < MaxConfigSaves
    /\ config_saves' = config_saves + 1
    /\ config' = current
    /\ IF config = NoConfig \/ SameMachine(config, current)
          \/ SanitizeMachineId(config.machine_id) = ""
       THEN UNCHANGED <<retiring, pc>>
       ELSE /\ retiring' = config
            /\ pc' = [pc EXCEPT !["gui"] = "cfg_clear"]
    /\ UNCHANGED <<spool, primary, sidecar>>
    /\ ConfigFrame

\* clear_cycle_state(prev_machine): the entry of the machine id is removed
\* from state.json.
ClearCycleState ==
    /\ pc["gui"] = "cfg_clear"
    /\ primary' = IF retiring.machine_id = OwnMachine THEN NoState ELSE primary
    /\ pc' = [pc EXCEPT !["gui"] = "cfg_spool"]
    /\ UNCHANGED <<spool, sidecar, cfgVars>>
    /\ ConfigFrame

\* _remove_machine_sidecars, first target: <ledger>.pending of the previous
\* machine in the previous directory, unlinked if it exists.
RemoveSpool ==
    /\ pc["gui"] = "cfg_spool"
    /\ spool' = IF retiring = OwnConfig /\ storage # "gone" THEN << >> ELSE spool
    /\ pc' = [pc EXCEPT !["gui"] = "cfg_sidecar"]
    /\ UNCHANGED <<primary, sidecar, cfgVars>>
    /\ ConfigFrame

\* _remove_machine_sidecars, second target: <ledger>.state.json
RemoveSidecar ==
    /\ pc["gui"] = "cfg_sidecar"
    /\ sidecar' = IF retiring = OwnConfig /\ storage # "gone" THEN NoState ELSE sidecar
    /\ pc' = [pc EXCEPT !["gui"] = "idle"]
    /\ retiring' = NoConfig
    /\ UNCHANGED <<spool, primary, config, config_saves>>
    /\ ConfigFrame

(***************************************************************************)
(* Specifications                                                          *)
(***************************************************************************)
\* One life of the service process: its main thread, the edge callback and
\* the flush worker, and the storage under it.
Next ==
    \/ \E s \in {"ok", "busy", "gone"} : StorageChange(s)
    \/ StartBegin
    \/ StartPrepare
    \/ StartWriter
    \/ \E ok \in BOOLEAN, level \in {0, 1} : SetupGpio(ok, level)
    \/ StartDone
    \/ StopBegin("main")
    \/ StopWriterSignal("main")
    \/ \E timed_out \in BOOLEAN : StopWriterJoin("main", timed_out)
    \/ \E level \in {0, 1} : HandleEvent(level)
    \/ \E t \in {"main", "cb", "worker"} : FlushQueue(t)
    \/ RecordEvent("cb")
    \/ WriterLoop
    \/ WriterWait
    \/ WriterExit

Spec == Init /\ [][Next]_vars

\* The service process may die at any moment and be started again.
CrashNext == Next \/ Crash

CrashSpec == Init /\ [][CrashNext]_vars

\* The service while it is started and runs: no stop(), no failure to arm
\* the pin, and a ledger that is at most locked.
RunNext ==
    \/ \E s \in {"ok", "busy"} : StorageChange(s)
    \/ StartBegin
    \/ StartPrepare
    \/ StartWriter
    \/ \E level \in {0, 1} : SetupGpio(TRUE, level)
    \/ StartDone
    \/ \E level \in {0, 1} : HandleEvent(level)
    \/ \E t \in {"main", "cb", "worker"} : FlushQueue(t)
    \/ RecordEvent("cb")
    \/ WriterLoop
    \/ WriterWait

\* Another thread of the service process calls simulate_event on the monitor.
SimNext ==
    \/ RunNext
    \/ SimulateEvent("sim")
    \/ RecordEvent("sim")
    \/ FlushQueue("sim")

SimSpec == Init /\ [][SimNext]_vars

\* gui.py, _log_test_event: the GUI process constructs a CycleMonitor of its
\* own and calls simulate_event() on it, here while the service is running.
LogTestEvent ==
    /\ pc["main"] = "started"
    /\ SimulateEvent("gui")

\* The GUI process logs test events while the service runs.
DualNext ==
    \/ RunNext
    \/ LogTestEvent
    \/ RecordEvent("gui")
    \/ FlushQueue("gui")

DualSpec == Init /\ [][DualNext]_vars

\* Another thread of the service process calls stop() on the monitor, at any
\* moment, also while the main thread is inside start().  The ledger is at
\* most locked.
LifeNext ==
    \/ RunNext
    \/ SetupGpio(FALSE, 0)
    \/ WriterExit
    \/ \E t \in {"main", "ctl"} :
          \/ StopBegin(t)
          \/ StopWriterSignal(t)
          \/ \E timed_out \in BOOLEAN : StopWriterJoin(t, timed_out)
    \/ FlushQueue("ctl")

LifeSpec == Init /\ [][LifeNext]_vars

\* The running service with every thread scheduled fairly: the main thread
\* finishes start(), the edge callback finishes the event it is recording,
\* and the flush worker keeps going round its loop.
MainRuns ==
    \/ StartPrepare
    \/ StartWriter
    \/ \E level \in {0, 1} : SetupGpio(TRUE, level)
    \/ StartDone
    \/ FlushQueue("main")

CallbackRuns == RecordEvent("cb") \/ FlushQueue("cb")

WorkerRuns == WriterLoop \/ WriterWait \/ FlushQueue("worker")

FairSpec ==
    /\ Init
    /\ [][RunNext]_vars
    /\ WF_vars(MainRuns)
    /\ WF_vars(CallbackRuns)
    /\ WF_vars(WorkerRuns)

\* The service from start() to stop(), with the flush worker scheduled
\* fairly until it ends; the ledger is at most locked.
ShutdownNext ==
    \/ RunNext
    \/ StopBegin("main")
    \/ StopWriterSignal("main")
    \/ \E timed_out \in BOOLEAN : StopWriterJoin("main", timed_out)
    \/ WriterExit

ShutdownSpec ==
    /\ Init
    /\ [][ShutdownNext]_vars
    /\ WF_vars(WorkerRuns \/ WriterExit)

\* The service started on stores that earlier runs have written, each on its
\* own: the configuration directory or the ledger directory may have been
\* replaced or restored since.
StoreInit ==
    /\ Constructed
    /\ primary \in StoredStates
    /\ sidecar \in StoredStates
    /\ NoLegacy
    /\ reset_hour = 4

StoreNext ==
    \/ \E s \in {"ok", "gone"} : StorageChange(s)
    \/ StartBegin
    \/ StartPrepare
    \/ StartWriter
    \/ \E level \in {0, 1} : SetupGpio(TRUE, level)
    \/ StartDone
    \/ \E level \in {0, 1} : HandleEvent(level)
    \/ \E t \in {"main", "cb", "worker"} : FlushQueue(t)
    \/ RecordEvent("cb")
    \/ WriterLoop
    \/ WriterWait

StoreSpec == StoreInit /\ [][StoreNext]_vars

\* The service with a configuration directory that cannot always be written.
SaveFailNext ==
    \/ Next
    \/ SaveCycleState("cb", FALSE)

SaveFailSpec == Init /\ [][SaveFailNext]_vars

\* simulate_event "is safe to call whether or not the monitor is running":
\* a monitor that was never started, on storage that can disappear, and a
\* caller of simulate_event.
TriggerNext ==
    \/ \E s \in {"ok", "gone"} : StorageChange(s)
    \/ SimulateEvent("sim")
    \/ RecordEvent("sim")
    \/ FlushQueue("sim")

TriggerSpec == Init /\ [][TriggerNext]_vars

\* simulate_event on the service's monitor before, while and after it runs,
\* on storage that can be busy or disappear.
ManualNext ==
    \/ \E s \in {"ok", "busy", "gone"} : StorageChange(s)
    \/ StartBegin
    \/ StartPrepare
    \/ StartWriter
    \/ SetupGpio(TRUE, 0)
    \/ StartDone
    \/ \E t \in {"main", "worker", "sim"} : FlushQueue(t)
    \/ SimulateEvent("sim")
    \/ RecordEvent("sim")
    \/ WriterLoop
    \/ WriterWait

ManualSpec == Init /\ [][ManualNext]_vars

\* Another thread of the service calls reset_cycle_counter once start() has
\* returned; the service was started on the stores of earlier runs.
ResetRunning ==
    /\ pc["main"] = "started"
    /\ ResetBegin("ctl")

ResetNext ==
    \/ RunNext
    \/ ResetRunning
    \/ ResetSave("ctl", TRUE)
    \/ ResetSidecar("ctl")

ResetSpec == StoreInit /\ [][ResetNext]_vars

\* State saves one after the other, with failing file operations and a crash.
SaveNext ==
    \/ SaveBegin
    \/ WriteOpen
    \/ \E ok \in BOOLEAN : WriteText(ok)
    \/ \E ok \in BOOLEAN : Replace(ok)
    \/ \E ok \in BOOLEAN : Unlink(ok)
    \/ SaveCrash

SaveSpec == Init /\ [][SaveNext]_vars

\* The counter on its own: any reset hour, any calls in any order.
CounterInit ==
    /\ Constructed
    /\ NoStoredState
    /\ NoLegacy
    /\ reset_hour \in ResetHours

CounterNext ==
    \/ \E reference \in Times, current_count \in 0..(MaxCycle - 1) :
            CounterConfigure(reference, current_count)
    \/ \E ts \in Times : CounterRecord(ts)

CounterSpec == CounterInit /\ [][CounterNext]_vars

\* The GUI process saves configurations while the service runs.
ConfigNext ==
    \/ RunNext
    \/ \E machine_id \in MachineIds, csv_directory \in Directories :
          SaveConfig(machine_id, csv_directory)
    \/ ClearCycleState
    \/ RemoveSpool
    \/ RemoveSidecar

ConfigSpec == Init /\ [][ConfigNext]_vars

\* Starts on a ledger file that an earlier version, or this one, has written.
MigrateInit ==
    /\ Constructed
    /\ NoStoredState
    /\ reset_hour = 4
    /\ legacy \in LegacyFiles
    /\ original = legacy

MigrateNext ==
    \E now \in StartTimes, fault \in {"none", "open", "write"} : PrepareLegacy(now, fault)

MigrateSpec == MigrateInit /\ [][MigrateNext]_vars

\* Restart: the process starts on any ledger with any persisted state in the
\* two stores, and events arrive after start() returned.
RestartInit ==
    /\ Constructed
    /\ primary \in StoredStates
    /\ sidecar \in StoredStates
    /\ reset_hour = 4
    /\ legacy \in RestartFiles
    /\ original = legacy

RecordAfterStart(ts) == mig_op \in {"kept", "migrated"} /\ CounterRecord(ts)

\* Events just before, at and after the first 04:00 boundary.
EventTimes == {3 * Hour, 3 * Hour + 1, 4 * Hour, 4 * Hour + 1}

RestartNext ==
    \/ \E now \in StartTimes, fault \in {"none", "open", "write"} : PrepareLegacy(now, fault)
    \/ \E ts \in EventTimes : RecordAfterStart(ts)

RestartSpec == RestartInit /\ [][RestartNext]_vars

(***************************************************************************)
(* Claims                                                                  *)
(***************************************************************************)
InLedger(r) == r \in Range(ledger)
InSpool(r) == r \in Range(spool)
\* Row r is held for retry by instance i: in its write queue, in its pending
\* list, or in the rows a _flush_queue call of the instance has taken and
\* not yet written or put back.
Held(i, r) ==
    \/ r \in Range(write_queue[i])
    \/ r \in Range(pending_rows[i])
    \/ \E t \in Threads : Inst(t) = i /\ InFlush(t) /\ r \in Range(rows_to_write[t])

\* C1: in every state, every row the service's monitor passed to
\* _enqueue_row is in the ledger or still held for retry (write queue,
\* pending list, or the hands of a flush in progress), whatever the
\* interleaving of enqueues, worker flushes and synchronous flushes.
C1_NoAcceptedRowLost ==
    \A r \in accepted[1] : InLedger(r) \/ Held(1, r)

\* C2: once _enqueue_row has returned on a running monitor, the row is in
\* the spool file until it is in the ledger, so that a process killed before
\* the flush worker runs finds it in the spool at its next load.
C2_EnqueuedRowInSpool ==
    \A r \in enqueued_running : InLedger(r) \/ InSpool(r)

\* C3: no row appears twice in the ledger, also after the process died
\* between a successful append and the clearing of the spool file and the
\* next process loaded the spool.
C3_NoDuplicateInLedger ==
    \A a, b \in 1..Len(ledger) : a # b => ledger[a] # ledger[b]

\* C4: if the ledger eventually becomes writable and stays so, and the
\* threads of the running service are scheduled fairly, every row the
\* monitor accepted is eventually in the ledger.
C4_EventualCommit ==
    (<>[](storage = "ok")) =>
        \A r \in RowIds : [](r \in accepted[1] => <>InLedger(r))

\* C5: when stop() returns after a stop during which the ledger was
\* writable throughout, every row accepted so far is in the ledger, both
\* lists are empty and the spool file is absent; when the ledger was not
\* writable throughout, every accepted row not in the ledger is in the spool.
StopReturns == pc["main"] # "stopped" /\ pc'["main"] = "stopped"

C5_StopLosesNothing ==
    [][StopReturns =>
        /\ stop_storage' = "ok" =>
              /\ \A r \in accepted'[1] : r \in Range(ledger')
              /\ write_queue'[1] = << >>
              /\ pending_rows'[1] = << >>
              /\ spool' = << >>
        /\ stop_storage' = "failed" =>
              \A r \in accepted'[1] : r \in Range(ledger') \/ r \in Range(spool')
      ]_vars

\* The rows are the last rows of the ledger, in order.
AtEndOfLedger(rows, led) ==
    /\ Len(rows) <= Len(led)
    /\ SubSeq(led, Len(led) - Len(rows) + 1, Len(led)) = rows

FlushTakes(t) == pc[t] = "flush" /\ pc'[t] = "flush_append"
AppendFails(t) == pc[t] = "flush_append" /\ pc'[t] = "flush_fail"
AppendSucceeds(t) == pc[t] = "flush_append" /\ pc'[t] = "flush_ok"
HandlerRestores(t) == pc[t] = "flush_fail" /\ pc'[t] = "flush_fail_persist"
FailedFlushReturns(t) == pc[t] = "flush_fail_persist" /\ pc'[t] # "flush_fail_persist"
GoodFlushReturns(t) == pc[t] = "flush_ok" /\ pc'[t] # "flush_ok"

C8_NoEventDropped ==
    [][pc["cb"] = "rec_prepare" /\ pc'["cb"] # "rec_prepare"
         => pc'["cb"] \in {"rec_load", "flush"}]_vars

\* C9: two events recorded by the same monitor within one reset window never
\* get the same cycle number from _CycleCounter.record, also when the edge
\* callback and simulate_event run at the same time.
C9_UniqueCycleNumbers ==
    \A r1, r2 \in RowIds :
        r1 # r2 /\ assigned[r1] # 0 /\ assigned[r2] # 0 => assigned[r1] # assigned[r2]

\* C10: while the GUI logs test events with monitors of its own against the
\* files of the running service, no row is in the ledger twice and every
\* row a GUI monitor accepted is in the ledger, in the spool file, or held
\* for retry by one of the monitors.
C10_ConcurrentInstancesSafe ==
    /\ \A a, b \in 1..Len(ledger) : a < b => ledger[a] # ledger[b]
    /\ \A r \in accepted[2] : InLedger(r) \/ InSpool(r) \/ Held(1, r) \/ Held(2, r)

\* C11: whenever no start() or stop() call is in progress and the running
\* flag is false, edge detection is not armed and the flush worker is not
\* alive, also when a stop() ran while a start() was in progress.
NoCallInProgress == MainIdle /\ pc["ctl"] = "idle"
\* The worker has ended, or is in the final flush after which it ends.
WorkerLeaving == pc["worker"] \in {"none", "w_exit"} \/ after["worker"] = "w_exit"

C11_StoppedMeansQuiet ==
    (NoCallInProgress /\ ~running[1]) => (~armed /\ WorkerLeaving)

\* C12: when start() raises, because _prepare_storage raised or because
\* _setup_gpio raised and the stop() in the except handler has returned,
\* the running flag is false, edge detection is not armed and the flush
\* worker has ended or is ending.
PrepareRaises == pc["main"] = "start_prepare" /\ pc'["main"] = "idle" /\ crashes' = crashes
GpioRaises == gpio_failed' /\ pc["main"] # "stopped" /\ pc'["main"] = "stopped"

C12_FailedStartStopped ==
    [][PrepareRaises \/ GpioRaises =>
          /\ ~running'[1]
          /\ ~armed'
          /\ pc'["worker"] \in {"none", "w_exit"} \/ after'["worker"] = "w_exit"
      ]_vars

\* C13: once stop() has asked the flush worker to end, the worker ends,
\* also when the bounded wait of stop() elapses before it has finished.
C13_WorkerTerminates ==
    (pc["main"] = "stop_join") ~> (pc["worker"] = "none")

\* C14: a start() on a running monitor and a stop() on a stopped monitor
\* change nothing: no second worker, no arming, counter, lists and files
\* as they were.
C14_Idempotent ==
    [][/\ (StartBegin /\ running[1]) => UNCHANGED vars
       /\ (StopBegin("main") /\ ~running[1]) => UNCHANGED vars
      ]_vars

\* The monitor runs with its worker, the pin armed and a row queued: a
\* start() here returns from its first locked section.
C14_Witness ==
    /\ pc["main"] = "started"
    /\ running[1] /\ writer_thread /\ armed
    /\ pc["worker"] # "none"
    /\ write_queue[1] = <<1>>
    /\ count[1] = 1

\* The reset-hour boundaries, one a day, and those in the interval (a, b].
Boundary(x) == x % DayLen = reset_hour * Hour
BoundariesBetween(a, b) == {x \in (a + 1)..b : Boundary(x)}
Counts == 0..(MaxCycle - 1)

\* C15: over any strictly increasing sequence of record timestamps, record
\* returns 1 when a reset boundary lies after the previous record and at or
\* before this one, and the previous count plus 1 otherwise.
C15_Record ==
    [][\A ts \in Times :
         (CounterRecord(ts) /\ op = "record" /\ increasing')
            => returned' = IF BoundariesBetween(at, ts) # {} THEN 1 ELSE returned + 1]_vars

\* What record does keep: the same, over the sequences that start at or after
\* the reference the counter was configured with.
RecordCountsInOrder ==
    [][\A ts \in Times :
         (CounterRecord(ts) /\ op = "record" /\ increasing' /\ ordered')
            => returned' = IF BoundariesBetween(at, ts) # {} THEN 1 ELSE returned + 1]_vars

\* C16: configure(reference, count) sets the count to the given value and
\* next_reset to the reset-hour boundary strictly after reference, the one of
\* the same day exactly when reference is before it, so that
\* reference < next_reset <= reference + 1 day.
C16_Configure ==
    [][\A reference \in Times, current_count \in Counts :
         CounterConfigure(reference, current_count)
            => /\ count'[1] = current_count
               /\ Boundary(next_reset')
               /\ reference < next_reset'
               /\ next_reset' <= reference + DayLen
               /\ (next_reset' \div DayLen = reference \div DayLen)
                      <=> (reference % DayLen < reset_hour * Hour)]_vars

\* a reference exactly on the boundary: next_reset is the boundary of the next day
C16_Witness ==
    /\ op = "configure" /\ Boundary(at) /\ count[1] = 2
    /\ next_reset = at + DayLen

\* C17: record(t) with t at or after the reference and the earlier records,
\* and k >= 1 boundaries passed since the call before, moves next_reset on by
\* exactly k days, returns 1 and leaves t < next_reset <= t + 1 day; the
\* first record on a counter never configured finds the count 0, returns 1
\* and leaves next_reset the first boundary after t.
C17_CatchUp ==
    [][\A ts \in Times :
         CounterRecord(ts)
            => IF next_reset = None
               THEN /\ count[1] = 0 /\ returned' = 1
                    /\ Boundary(next_reset')
                    /\ ts < next_reset' /\ next_reset' <= ts + DayLen
               ELSE (ordered' /\ BoundariesBetween(at, ts) # {})
                     => /\ next_reset' = next_reset + Cardinality(BoundariesBetween(at, ts)) * DayLen
                        /\ rolled' = Cardinality(BoundariesBetween(at, ts))
                        /\ returned' = 1
                        /\ ts < next_reset' /\ next_reset' <= ts + DayLen]_vars

\* a record that came two boundaries after the call before it
C17_Witness ==
    /\ op = "record" /\ ordered /\ rolled = 2 /\ returned = 1
    /\ at < next_reset /\ next_reset <= at + DayLen

C19_MirrorSingle ==
    [][(StartPrepare /\ storage # "gone" /\ ((primary # NoState) # (sidecar # NoState)))
          => /\ primary' = sidecar'
             /\ primary' # NoState
             /\ count'[1] = primary'.last_cycle]_vars

\* C20: once _record_event has written the state of an event and the ledger
\* directory was there for the sidecar, the primary store and the sidecar both
\* hold the cycle number record returned for the event and its timestamp.
C20_StoresHoldEvent ==
    [][\A t \in Recorders :
         (PersistSidecar(t) /\ storage # "gone")
            => /\ primary' = [last_cycle |-> cycle_number[t], last_timestamp |-> timestamp[t]]
               /\ sidecar' = primary'
               /\ assigned[timestamp[t]] = cycle_number[t]]_vars

\* C21: whatever step of a state save the process dies at, and whichever file
\* operation fails, state.json and the sidecar each hold what they held
\* before the save or the complete text of the save, never a torn one.
C21_AtomicStateWrites ==
    [][\A f \in StateFiles :
         /\ disk'[f].text # "torn"
         /\ disk'[f] \in {disk[f], Complete(saves')}]_vars

\* the process died while the temporary file of state.json was being written,
\* after an earlier save had gone through
C21_Witness ==
    /\ crashes = 1 /\ save_pc = NoSave
    /\ disk["state_tmp"] = Torn(2)
    /\ disk["state"] = Complete(1) /\ disk["sidecar"] = Complete(1)
    /\ saves = 2

\* C22: a state write that fails, to state.json, to the sidecar or to both,
\* leaves the counter, the queue and the accepted rows as they are and lets
\* the handler go on; the handler of such an event returns with the event
\* counted, its row accepted and the observer invoked once; and every state
\* write that succeeds writes the counter's current value.
C22_SaveFailureKeepsEvent ==
    [][/\ (SaveCycleState("cb", FALSE) \/ (PersistSidecar("cb") /\ storage = "gone"))
           => /\ count' = count /\ assigned' = assigned /\ accepted' = accepted
              /\ write_queue' = write_queue /\ pending_rows' = pending_rows
              /\ pc'["cb"] \in {"rec_sidecar", "stats"}
       /\ (pc["cb"] = "stats" /\ pc'["cb"] = "idle" /\ timestamp["cb"] \in unsaved)
           => /\ notified'[timestamp["cb"]] = 1
              /\ assigned[timestamp["cb"]] = count[1]
              /\ timestamp["cb"] \in accepted[1]
       /\ SaveCycleState("cb", TRUE)
           => primary' = [last_cycle |-> count[1], last_timestamp |-> timestamp["cb"]]
       /\ (PersistSidecar("cb") /\ storage # "gone")
           => sidecar' = [last_cycle |-> count[1], last_timestamp |-> timestamp["cb"]]]_vars

\* a state write of event 1 failed, its observer was invoked, and the save of
\* event 2 has written the count 2 to both stores
C22_Witness ==
    /\ unsaved = {1} /\ notified = <<1, 1>> /\ assigned = <<1, 2>>
    /\ pc["cb"] = "idle"
    /\ primary = [last_cycle |-> 2, last_timestamp |-> 2]
    /\ sidecar = primary

\* C23: an edge callback counts an event exactly when the level it observes
\* is high and the latch is clear: only then does it go on to record the
\* event, and the event it goes on to record has been given a cycle number
\* when the callback returns.  The latch starts as the level read on arming.
C23_Debounce ==
    [][/\ \A level \in {0, 1} :
             HandleEvent(level)
                => /\ (pc'["cb"] = "rec_prepare") <=> (level = 1 /\ ~signal_high[1])
                   /\ signal_high'[1] = (level = 1)
       /\ (pc["cb"] # "idle" /\ pc'["cb"] = "idle" /\ crashes' = crashes)
             => assigned[timestamp["cb"]] # 0]_vars

\* C24: no call ends with an exception of the observer raised to its caller,
\* from an edge notification or from simulate_event, and every event the
\* observer was invoked for stays counted and accepted.
C24_ObserverContained ==
    /\ propagated = {}
    /\ \A r \in RowIds : notified[r] > 0 => (assigned[r] # 0 /\ r \in accepted[1])

\* C25: the observer is invoked for an event only when the event has its
\* cycle number, its row was enqueued and both state writes were attempted
\* (state.json and the sidecar hold the event, or a write of it failed); it
\* is invoked once, by the handler that recorded the event, and every handler
\* that counted an event has invoked it when it returns.  The row need not
\* be in the ledger by then.
C25_ObserverAfterDurability ==
    [][\A t \in {"cb", "sim"} :
        /\ \A raises \in BOOLEAN :
             UpdateStats(t, raises)
                => /\ notified[timestamp[t]] = 0
                   /\ assigned[timestamp[t]] # 0
                   /\ timestamp[t] \in accepted[1]
                   /\ \/ timestamp[t] \in unsaved
                      \/ primary.last_timestamp >= timestamp[t]
                   /\ \/ timestamp[t] \in unsaved
                      \/ sidecar.last_timestamp >= timestamp[t]
        /\ \A r \in RowIds :
             (notified'[r] # notified[r] /\ timestamp[t] = r /\ pc[t] = "stats")
                => notified'[r] = 1
        /\ (pc[t] # "idle" /\ pc'[t] = "idle" /\ assigned[timestamp[t]] # 0)
             => notified'[timestamp[t]] = 1]_vars

\* The accepted events of the service in the order they were enqueued: the
\* edge callback timestamps and enqueues one event at a time, so this is the
\* order of the timestamps.
RECURSIVE InOrder(_)
InOrder(S) ==
    IF S = {} THEN << >>
    ELSE LET least == CHOOSE r \in S : \A q \in S : r <= q
         IN <<least>> \o InOrder(S \ {least})

IsPrefix(s, t) ==
    /\ Len(s) <= Len(t)
    /\ \A k \in 1..Len(s) : s[k] = t[k]

\* C26: the rows of the ledger are always the accepted events in the order
\* they were enqueued, or a prefix of them while rows are pending.
C26_LedgerInAcceptanceOrder ==
    IsPrefix(ledger, InOrder(accepted[1]))

\* Rows the restarted service holds that it did not accept itself: they can
\* only have come from the spool file it found.
RecoveredIn(rows) == {k \in 1..Len(rows) : rows[k] \notin accepted[1]}

\* Rows of the spool that the service holds outside the flush of thread t.
RecoveredElsewhere(t) ==
    \/ RecoveredIn(pending_rows[1]) # {}
    \/ \E u \in ServiceThreads \ {t} : RecoveredIn(rows_to_write[u]) # {}

\* C27: a row is enqueued only with the spool loaded; once loaded, the spool
\* is not loaded again by the same instance (the recovered rows it holds do
\* not grow); an append that writes a row enqueued after startup writes it
\* after the recovered rows of the same batch and leaves no recovered row
\* waiting in the instance.
C27_RecoveredRowsFirst ==
    [][/\ \A t \in ServiceThreads :
             (pc[t] = "rec_enqueue" /\ pc'[t] # "rec_enqueue" /\ crashes' = crashes)
                => /\ pending_loaded'[1]
                   /\ spool # << >> /\ ~pending_loaded[1]
                        => RecoveredIn(pending_rows'[1]) # {}
       /\ (pending_loaded[1] /\ crashes' = crashes)
             => /\ pending_loaded'[1]
                /\ Cardinality(RecoveredIn(pending_rows'[1]))
                     <= Cardinality(RecoveredIn(pending_rows[1]))
                        + Cardinality(UNION {RecoveredIn(rows_to_write[u]) \X {u}
                                             : u \in ServiceThreads})
       /\ \A t \in ServiceThreads :
             (AppendSucceeds(t) /\ \E k \in 1..Len(rows_to_write[t]) :
                                     rows_to_write[t][k] \in accepted[1])
                => /\ ~RecoveredElsewhere(t)
                   /\ \A j, k \in 1..Len(rows_to_write[t]) :
                        (rows_to_write[t][j] \in accepted[1] /\ j < k)
                           => rows_to_write[t][k] \in accepted[1]]_vars

\* C28: after the migration of a legacy ledger, with no persisted state, the
\* counter holds the count the migration's replay of the migrated rows ended
\* with, and its reset window is the one of the last migrated timestamp.
C28_SeededFromReplay ==
    (mig_op = "migrated" /\ legacy # << >>)
        => /\ count[1] = replayed
           /\ next_reset = CalculateNextReset(FromIsoFormat(legacy[Len(legacy)][1]))
           /\ counter_initialized[1]

\* Every row of the file has one field.
SingleColumn(rows) == \A k \in 1..Len(rows) : Len(rows[k]) = 1

\* C29: a start on a ledger that the last start migrated, or whose rows all
\* have a single field, leaves every row of the file as it is, whatever the
\* rows are.
C29_MigrationIdempotent ==
    [][(mig_op = "migrated" \/ SingleColumn(legacy)) => legacy' = legacy]_vars

\* a three-column ledger with two timestamps was rewritten with one field
\* per row by the first start and kept by the second
C29_Witness ==
    /\ runs = 2
    /\ mig_op = "kept"
    /\ Len(original) = 2 /\ Len(original[1]) = 3
    /\ legacy # original
    /\ Len(legacy) = 2 /\ SingleColumn(legacy)

\* The timestamps of a file in the order of its rows: of every row whose
\* last field is one.
RECURSIVE LastTimestamps(_)
LastTimestamps(rows) ==
    IF rows = << >> THEN << >>
    ELSE LET row == Head(rows) IN
         IF Len(row) < 1 THEN LastTimestamps(Tail(rows))
         ELSE IF FromIsoFormat(row[Len(row)]) = None THEN LastTimestamps(Tail(rows))
         ELSE <<FromIsoFormat(row[Len(row)])>> \o LastTimestamps(Tail(rows))

\* C30: every step leaves the rows of the ledger in place and at most adds
\* rows after them; the only step that rewrites a ledger file is a migration,
\* and it keeps the number of rows and the order of the timestamps.
C30_AppendOnly ==
    [][/\ IsPrefix(ledger, ledger')
       /\ mig_op' # "migrated" => IsPrefix(legacy, legacy')
       /\ legacy' # legacy
            => /\ Len(legacy') = Len(legacy)
               /\ LastTimestamps(legacy') = LastTimestamps(legacy)]_vars

\* C31: from one save to the next the persisted last_cycle does not
\* decrease, in the primary store and in the sidecar, unless the save is the
\* one of a reset, which stores 0.
C31_LastCycleMonotone ==
    [][/\ primary'.last_cycle < primary.last_cycle
            => (pc["ctl"] = "reset_save" /\ primary'.last_cycle = 0)
       /\ sidecar'.last_cycle < sidecar.last_cycle
            => (pc["ctl"] = "reset_sidecar" /\ sidecar'.last_cycle = 0)]_vars

\* The state reset_cycle_counter persists for its reference.
ResetState(reference) == [last_cycle |-> 0, last_timestamp |-> reference]

ConfigStep == config_saves' # config_saves \/ pc'["gui"] # pc["gui"]

\* What C33 says of the steps of save_config: a save that changes machine id
\* or directory starts the clean-up of the previous configuration, which
\* removes the machine's entry of the primary store, the spool and the
\* sidecar; a save that changes neither deletes nothing; the ledger is kept.
RetirementSteps ==
    /\ config_saves' # config_saves
         => /\ UNCHANGED <<ledger, csvExists, spool, primary, sidecar>>
            /\ IF config.machine_id # config'.machine_id
                  \/ config.csv_directory # config'.csv_directory
               THEN pc'["gui"] = "cfg_clear" /\ retiring' = config
               ELSE pc'["gui"] = "idle"
    /\ (pc["gui"] = "cfg_clear" /\ pc'["gui"] = "cfg_spool" /\ retiring.machine_id = OwnMachine)
         => primary' = NoState
    /\ (pc["gui"] = "cfg_spool" /\ pc'["gui"] = "cfg_sidecar" /\ retiring = OwnConfig)
         => spool' = << >>
    /\ (pc["gui"] = "cfg_sidecar" /\ pc'["gui"] = "idle" /\ retiring = OwnConfig)
         => sidecar' = NoState
    /\ ConfigStep => UNCHANGED <<ledger, csvExists>>
    /\ IsPrefix(ledger, ledger')
    /\ csvExists => csvExists'

\* C33 as stated: the steps of save_config are as above, and no other step
\* deletes the ledger or the spool.
C33_RetirementAsStated ==
    [][/\ RetirementSteps
       /\ ~ConfigStep => ~(spool # << >> /\ spool' = << >>)]_vars

\* C33: the steps of save_config are as above; the only other step that
\* deletes the spool is the _persist_pending_rows of a flush of the service
\* that has no pending row left.
C33_Retirement ==
    [][/\ RetirementSteps
       /\ (~ConfigStep /\ spool # << >> /\ spool' = << >>)
            => \E t \in ServiceThreads :
                  /\ pc[t] \in {"flush_ok", "flush_fail_persist"}
                  /\ pc'[t] # pc[t]
                  /\ pending_rows[1] = << >>]_vars

\* the machine is being retired: its entry of the primary store and the
\* spool of its pending row are gone, the sidecar is next, the ledger is kept
C33_Witness ==
    /\ pc["gui"] = "cfg_sidecar"
    /\ retiring = OwnConfig
    /\ primary = NoState
    /\ spool = << >>
    /\ pending_rows[1] # << >>
    /\ \A t \in ServiceThreads : ~InFlush(t)
    /\ sidecar # NoState
    /\ csvExists


\* The MachineState _restore_counter_state chooses from the two stores: the
\* more recent of the two, or the one that exists.
ChosenState ==
    IF primary # NoState /\ sidecar # NoState
    THEN (IF sidecar.last_timestamp > primary.last_timestamp THEN sidecar ELSE primary)
    ELSE IF primary # NoState THEN primary ELSE sidecar

StartStep == runs' # runs
EventStep == runs' = runs /\ op' = "record"

\* C34: a start() that finds a persisted state (c, t) leaves the counter at
\* count c with the first reset boundary after t, whatever the ledger holds,
\* and the next event before that boundary is cycle c + 1.
C34_RestartContinuity ==
    [][/\ (StartStep /\ ChosenState # NoState)
            => /\ count'[1] = ChosenState.last_cycle
               /\ next_reset' = CalculateNextReset(ChosenState.last_timestamp)
       /\ (/\ EventStep
           /\ ChosenState # NoState
           /\ count[1] = ChosenState.last_cycle
           /\ next_reset = CalculateNextReset(ChosenState.last_timestamp)
           /\ at' < next_reset)
            => returned' = ChosenState.last_cycle + 1]_vars

\* A migrated ledger whose replay disagrees with the persisted count, and the
\* first event after the start numbered from the persisted count.
C34_Witness ==
    /\ mig_op = "migrated"
    /\ seed # NoSeed
    /\ ChosenState # NoState
    /\ seed.last_count # ChosenState.last_cycle
    /\ op = "record"
    /\ rolled = 0
    /\ returned = ChosenState.last_cycle + 1

\* simulate_event of the service's monitor returns: the last step of thread "sim".
SimulateReturns == pc["sim"] = "stats" /\ pc'["sim"] = "idle"

SimulatedRow == timestamp["sim"]
SimEnqueues == pc["sim"] = "rec_enqueue" /\ pc'["sim"] # "rec_enqueue"

BothFinished ==
    /\ pc["cb"] = "stats" \/ pc["ctl"] = "reset_sidecar"
    /\ pc'["cb"] = "idle"
    /\ pc'["ctl"] = "idle"

\* C36: on the started monitor, once a recording and a reset_cycle_counter
\* have both finished, last_cycle in the primary store and in the sidecar is
\* the in-memory count, and no save moves last_timestamp of a store backward.
C36_ResetAgreesWithEvent ==
    [][pc["main"] = "started" =>
          /\ BothFinished => /\ primary'.last_cycle = count'[1]
                             /\ sidecar'.last_cycle = count'[1]
          /\ primary' # primary => primary'.last_timestamp >= primary.last_timestamp
          /\ sidecar' # sidecar => sidecar'.last_timestamp >= sidecar.last_timestamp]_vars

\* A step of simulate_event on the service's monitor.
SimulateStep == pc'["sim"] # pc["sim"]

\* C37: on a running monitor whose latch is set (the line was seen high and
\* no low has been seen since), no step of simulate_event clears the latch,
\* so a further high callback of the same pulse is still ignored.
C37_SimulateKeepsLatch ==
    [][(SimulateStep /\ running[1] /\ signal_high[1]) => signal_high'[1]]_vars

\* The events the service's monitor recorded: counter incremented and row
\* enqueued (accepted is extended by _enqueue_row).
EventsRecorded == Cardinality(accepted[1])

\* C38: events_logged of the service's monitor changes only by one, for an
\* event that was recorded, and when no recording is under way it is the
\* number of events recorded; an event abandoned because _prepare_storage
\* failed does not increase it, on either path.
C38_EventsLoggedCountsRecorded ==
    [][/\ events_logged'[1] # events_logged[1] =>
            /\ events_logged'[1] = events_logged[1] + 1
            /\ \E t \in {"cb", "sim"} : /\ pc[t] = "stats"
                                        /\ pc'[t] = "idle"
                                        /\ timestamp[t] \in accepted[1]
       /\ (pc'["cb"] = "idle" /\ pc'["sim"] = "idle") => events_logged'[1] = EventsRecorded'
      ]_vars
====
